---- MODULE Spec2Model ----
(***************************************************************************)
(* State-transition engine of the simulated Databricks workspace            *)
(* (saas_bench.domains.databricks): the immutable DatabricksState and the   *)
(* tool functions (state, args) -> (new_state, response) of tools.py.       *)
(*                                                                         *)
(* Modelling conventions                                                   *)
(*  - a Python dict is a function with a finite domain of strings; the     *)
(*    empty dict is <<>>.  {**d, k: v} is (k :> v) @@ d.                    *)
(*  - a Python list is a sequence.                                          *)
(*  - None (also: a key that args does not hold, as args.get returns None  *)
(*    for it) is the string None below; "" is the empty Python string.     *)
(*  - a row record dict(zip(names, row)) is the sequence of its            *)
(*    <<field, value>> items in dict order (see DictZip).                   *)
(*  - created_at (datetime.now) and Catalog.properties (always {}) take no *)
(*    part in any tool's control flow and are left out of the records.      *)
(*  - a tool function that raises is the result <<state, Raise(..)>>: the   *)
(*    caller's state is not replaced.                                      *)
(***************************************************************************)
EXTENDS Integers, Sequences, FiniteSets, TLC

VARIABLES
    state,      \* the current DatabricksState
    prev,       \* the DatabricksState the last tool call was made on
    tool,       \* name of the last tool called
    args,       \* args mapping of the last tool call
    response,   \* response mapping of the last tool call
    envs,       \* the Environment instances: their state, log and snapshots
    op,         \* the last operation made on an Environment instance
    final_state,\* the final state handed to evaluate_task
    goal_state, \* the goal state handed to evaluate_task
    result      \* the EvaluationResult of the last evaluate_task call

toolVars == <<state, prev, tool, args, response>>

envVars == <<envs, op>>

evalVars == <<final_state, goal_state, result>>

vars == <<state, prev, tool, args, response, envs, op,
          final_state, goal_state, result>>

-----------------------------------------------------------------------------
(* Bounds of the model                                                     *)

\* Largest workspace the caller builds, in the measure Size below.
MaxSize == 5

-----------------------------------------------------------------------------
(* Python values                                                           *)

None == "<None>"

\* `not x` for an optional string x.
Falsy(x) == x = None \/ x = ""

\* str(x) inside an f-string.
Str(x) == IF x = None THEN "None" ELSE x

\* args.get(k): None when the key is missing.
Get(a, k) == IF k \in DOMAIN a THEN a[k] ELSE None

\* args.get(k, d)
GetDefault(a, k, d) == IF k \in DOMAIN a THEN a[k] ELSE d

\* {**d, k: v}
DictPut(d, k, v) == (k :> v) @@ d

\* Index of field k in a sequence of <<field, value>> items, 0 if absent.
RECURSIVE ItemIndex(_, _, _)
ItemIndex(items, k, i) ==
    IF i > Len(items) THEN 0
    ELSE IF items[i][1] = k THEN i
    ELSE ItemIndex(items, k, i + 1)

\* dict(zip(names, row)): items in first-insertion order, a repeated key
\* keeps its position and takes the later value; zip stops at the shorter.
RECURSIVE DictZipFrom(_, _, _, _)
DictZipFrom(names, row, i, acc) ==
    IF i > Len(names) \/ i > Len(row) THEN acc
    ELSE LET j == ItemIndex(acc, names[i], 1)
         IN  DictZipFrom(names, row, i + 1,
                 IF j = 0 THEN Append(acc, <<names[i], row[i]>>)
                 ELSE [acc EXCEPT ![j] = <<names[i], row[i]>>])

DictZip(names, row) == DictZipFrom(names, row, 1, <<>>)

\* list(d.keys()) of a row record.
RowKeys(rec) == [i \in 1..Len(rec) |-> rec[i][1]]

\* list(d.values()) of a row record.
RowValues(rec) == [i \in 1..Len(rec) |-> rec[i][2]]

-----------------------------------------------------------------------------
(* state.py                                                                *)

Column(name, type, nullable, comment) ==
    [name |-> name, type |-> type, nullable |-> nullable, comment |-> comment]

Catalog(name, owner, comment) ==
    [name |-> name, owner |-> owner, comment |-> comment]

Schema(catalog_name, schema_name, owner, comment) ==
    [catalog_name |-> catalog_name, schema_name |-> schema_name,
     owner |-> owner, comment |-> comment]

Table(catalog_name, schema_name, table_name, columns, owner) ==
    [catalog_name |-> catalog_name, schema_name |-> schema_name,
     table_name |-> table_name, columns |-> columns, data |-> <<>>,
     owner |-> owner]

Notebook(path, language) ==
    [path |-> path, language |-> language, cells |-> <<>>,
     attached_cluster_id |-> None]

Cluster(cluster_id, name, node_type, num_workers, spark_version) ==
    [cluster_id |-> cluster_id, name |-> name, state |-> "RUNNING",
     node_type |-> node_type, num_workers |-> num_workers,
     spark_version |-> spark_version]

Job(job_id, name, schedule, tasks) ==
    [job_id |-> job_id, name |-> name, schedule |-> schedule, tasks |-> tasks]

Permission(principal, privilege, securable_type, securable_name) ==
    [principal |-> principal, privilege |-> privilege,
     securable_type |-> securable_type, securable_name |-> securable_name]

\* DatabricksState()
DatabricksState ==
    [catalogs |-> <<>>, schemas |-> <<>>, tables |-> <<>>, notebooks |-> <<>>,
     clusters |-> <<>>, jobs |-> <<>>, permissions |-> <<>>,
     active_catalog |-> None]

get_schema_key(catalog_name, schema_name) ==
    catalog_name \o "." \o schema_name

get_table_key(catalog_name, schema_name, table_name) ==
    catalog_name \o "." \o schema_name \o "." \o table_name

-----------------------------------------------------------------------------
(* Responses                                                               *)

Error(msg) == [error |-> msg]

\* The tool function raised an exception instead of returning.
Raise(msg) == [raised |-> msg]

IsError(r) == "error" \in DOMAIN r

IsRaise(r) == "raised" \in DOMAIN r

IsSuccess(r) == "success" \in DOMAIN r

-----------------------------------------------------------------------------
(* tools.py: catalogs, schemas, tables                                     *)

\* use_catalog without the existence check.
use_catalog_unchecked(s, a) ==
    LET catalog_name == Get(a, "catalog_name")
    IN  IF Falsy(catalog_name)
        THEN <<s, Error("catalog_name is required")>>
        ELSE <<[s EXCEPT !.active_catalog = catalog_name],
               [success |-> TRUE, active_catalog |-> catalog_name]>>

use_catalog(s, a) ==
    LET catalog_name == Get(a, "catalog_name")
    IN  IF Falsy(catalog_name)
        THEN <<s, Error("catalog_name is required")>>
        ELSE IF catalog_name \notin DOMAIN s.catalogs
        THEN <<s, Error("Catalog '" \o catalog_name \o "' does not exist")>>
        ELSE <<[s EXCEPT !.active_catalog = catalog_name],
               [success |-> TRUE, active_catalog |-> catalog_name]>>

list_catalogs(s, a) ==
    <<s, [catalogs |->
            {[name |-> s.catalogs[k].name, owner |-> s.catalogs[k].owner,
              comment |-> s.catalogs[k].comment] : k \in DOMAIN s.catalogs}]>>

\* create_catalog that also makes the new catalog the active one.
create_catalog_activating(s, a) ==
    LET catalog_name == Get(a, "catalog_name")
        owner        == GetDefault(a, "owner", "admin")
        comment      == Get(a, "comment")
    IN  IF Falsy(catalog_name)
        THEN <<s, Error("catalog_name is required")>>
        ELSE IF catalog_name \in DOMAIN s.catalogs
        THEN <<s, Error("Catalog '" \o catalog_name \o "' already exists")>>
        ELSE <<[s EXCEPT !.catalogs =
                    DictPut(s.catalogs, catalog_name,
                            Catalog(catalog_name, owner, comment)),
                         !.active_catalog = catalog_name],
               [success |-> TRUE, catalog |-> catalog_name]>>

\* create_catalog that replaces a catalog of the same name.
create_catalog_overwriting(s, a) ==
    LET catalog_name == Get(a, "catalog_name")
        owner        == GetDefault(a, "owner", "admin")
        comment      == Get(a, "comment")
    IN  IF Falsy(catalog_name)
        THEN <<s, Error("catalog_name is required")>>
        ELSE <<[s EXCEPT !.catalogs =
                    DictPut(s.catalogs, catalog_name,
                            Catalog(catalog_name, owner, comment))],
               [success |-> TRUE, catalog |-> catalog_name]>>

create_catalog(s, a) ==
    LET catalog_name == Get(a, "catalog_name")
        owner        == GetDefault(a, "owner", "admin")
        comment      == Get(a, "comment")
    IN  IF Falsy(catalog_name)
        THEN <<s, Error("catalog_name is required")>>
        ELSE IF catalog_name \in DOMAIN s.catalogs
        THEN <<s, Error("Catalog '" \o catalog_name \o "' already exists")>>
        ELSE <<[s EXCEPT !.catalogs =
                    DictPut(s.catalogs, catalog_name,
                            Catalog(catalog_name, owner, comment))],
               [success |-> TRUE, catalog |-> catalog_name]>>

list_schemas(s, a) ==
    LET catalog_name == Get(a, "catalog_name")
    IN  IF Falsy(catalog_name)
        THEN <<s, Error("catalog_name is required")>>
        ELSE IF catalog_name \notin DOMAIN s.catalogs
        THEN <<s, Error("Catalog '" \o catalog_name \o "' does not exist")>>
        ELSE <<s, [schemas |->
                {[catalog_name |-> s.schemas[k].catalog_name,
                  schema_name  |-> s.schemas[k].schema_name,
                  owner        |-> s.schemas[k].owner,
                  comment      |-> s.schemas[k].comment] :
                 k \in {x \in DOMAIN s.schemas :
                          s.schemas[x].catalog_name = catalog_name}}]>>

\* create_schema without the "already exists" check.
create_schema_overwriting(s, a) ==
    LET catalog_name == Get(a, "catalog_name")
        schema_name  == Get(a, "schema_name")
        owner        == GetDefault(a, "owner", "admin")
        comment      == Get(a, "comment")
        schema_key   == get_schema_key(catalog_name, schema_name)
    IN  IF Falsy(catalog_name) \/ Falsy(schema_name)
        THEN <<s, Error("catalog_name and schema_name are required")>>
        ELSE IF catalog_name \notin DOMAIN s.catalogs
        THEN <<s, Error("Catalog '" \o catalog_name \o "' does not exist")>>
        ELSE <<[s EXCEPT !.schemas =
                    DictPut(s.schemas, schema_key,
                            Schema(catalog_name, schema_name, owner, comment))],
               [success |-> TRUE, schema |-> schema_key]>>

\* create_schema that does not look for the catalog.
create_schema_without_catalog_check(s, a) ==
    LET catalog_name == Get(a, "catalog_name")
        schema_name  == Get(a, "schema_name")
        owner        == GetDefault(a, "owner", "admin")
        comment      == Get(a, "comment")
        schema_key   == get_schema_key(catalog_name, schema_name)
    IN  IF Falsy(catalog_name) \/ Falsy(schema_name)
        THEN <<s, Error("catalog_name and schema_name are required")>>
        ELSE IF schema_key \in DOMAIN s.schemas
        THEN <<s, Error("Schema '" \o schema_key \o "' already exists")>>
        ELSE <<[s EXCEPT !.schemas =
                    DictPut(s.schemas, schema_key,
                            Schema(catalog_name, schema_name, owner, comment))],
               [success |-> TRUE, schema |-> schema_key]>>

create_schema(s, a) ==
    LET catalog_name == Get(a, "catalog_name")
        schema_name  == Get(a, "schema_name")
        owner        == GetDefault(a, "owner", "admin")
        comment      == Get(a, "comment")
        schema_key   == get_schema_key(catalog_name, schema_name)
    IN  IF Falsy(catalog_name) \/ Falsy(schema_name)
        THEN <<s, Error("catalog_name and schema_name are required")>>
        ELSE IF catalog_name \notin DOMAIN s.catalogs
        THEN <<s, Error("Catalog '" \o catalog_name \o "' does not exist")>>
        ELSE IF schema_key \in DOMAIN s.schemas
        THEN <<s, Error("Schema '" \o schema_key \o "' already exists")>>
        ELSE <<[s EXCEPT !.schemas =
                    DictPut(s.schemas, schema_key,
                            Schema(catalog_name, schema_name, owner, comment))],
               [success |-> TRUE, schema |-> schema_key]>>

list_tables(s, a) ==
    LET catalog_name == Get(a, "catalog_name")
        schema_name  == Get(a, "schema_name")
        schema_key   == get_schema_key(catalog_name, schema_name)
    IN  IF Falsy(catalog_name) \/ Falsy(schema_name)
        THEN <<s, Error("catalog_name and schema_name are required")>>
        ELSE IF schema_key \notin DOMAIN s.schemas
        THEN <<s, Error("Schema '" \o schema_key \o "' does not exist")>>
        ELSE <<s, [tables |->
                {[catalog_name |-> s.tables[k].catalog_name,
                  schema_name  |-> s.tables[k].schema_name,
                  table_name   |-> s.tables[k].table_name,
                  owner        |-> s.tables[k].owner,
                  column_count |-> Len(s.tables[k].columns)] :
                 k \in {x \in DOMAIN s.tables :
                          /\ s.tables[x].catalog_name = catalog_name
                          /\ s.tables[x].schema_name = schema_name}}]>>

\* The Column objects create_table builds from the column dicts.
column_objects(columns) ==
    [i \in 1..Len(columns) |->
        Column(Get(columns[i], "name"),
               GetDefault(columns[i], "type", "STRING"),
               GetDefault(columns[i], "nullable", TRUE),
               Get(columns[i], "comment"))]

\* create_table without the check that the schema exists.
create_table_without_schema_check(s, a) ==
    LET catalog_name == Get(a, "catalog_name")
        schema_name  == Get(a, "schema_name")
        table_name   == Get(a, "table_name")
        columns      == GetDefault(a, "columns", <<>>)
        owner        == GetDefault(a, "owner", "admin")
        table_key    == get_table_key(catalog_name, schema_name, table_name)
    IN  IF Falsy(catalog_name) \/ Falsy(schema_name) \/ Falsy(table_name)
        THEN <<s, Error("catalog_name, schema_name, and table_name are required")>>
        ELSE IF table_key \in DOMAIN s.tables
        THEN <<s, Error("Table '" \o table_key \o "' already exists")>>
        ELSE IF \E i \in 1..Len(columns) : Get(columns[i], "name") = None
        THEN <<s, Raise("ValidationError")>>
        ELSE <<[s EXCEPT !.tables =
                    DictPut(s.tables, table_key,
                            Table(catalog_name, schema_name, table_name,
                                  column_objects(columns), owner))],
               [success |-> TRUE, table |-> table_key]>>

create_table(s, a) ==
    LET catalog_name == Get(a, "catalog_name")
        schema_name  == Get(a, "schema_name")
        table_name   == Get(a, "table_name")
        columns      == GetDefault(a, "columns", <<>>)
        owner        == GetDefault(a, "owner", "admin")
        schema_key   == get_schema_key(catalog_name, schema_name)
        table_key    == get_table_key(catalog_name, schema_name, table_name)
    IN  IF Falsy(catalog_name) \/ Falsy(schema_name) \/ Falsy(table_name)
        THEN <<s, Error("catalog_name, schema_name, and table_name are required")>>
        ELSE IF schema_key \notin DOMAIN s.schemas
        THEN <<s, Error("Schema '" \o schema_key \o "' does not exist")>>
        ELSE IF table_key \in DOMAIN s.tables
        THEN <<s, Error("Table '" \o table_key \o "' already exists")>>
        \* Column(name=None) fails pydantic validation of `name: str`
        ELSE IF \E i \in 1..Len(columns) : Get(columns[i], "name") = None
        THEN <<s, Raise("ValidationError")>>
        ELSE <<[s EXCEPT !.tables =
                    DictPut(s.tables, table_key,
                            Table(catalog_name, schema_name, table_name,
                                  column_objects(columns), owner))],
               [success |-> TRUE, table |-> table_key]>>

\* The for loop of insert_into_table over rows[i..]: the rows converted so
\* far are in new_rows; the result is <<ok, new_rows>>, ok = FALSE when the
\* loop returned the error at a row whose length is not the column count.
RECURSIVE ConvertRows(_, _, _, _)
ConvertRows(column_names, rows, i, new_rows) ==
    IF i > Len(rows) THEN <<TRUE, new_rows>>
    ELSE IF Len(rows[i]) # Len(column_names) THEN <<FALSE, new_rows>>
    ELSE ConvertRows(column_names, rows, i + 1,
                     Append(new_rows, DictZip(column_names, rows[i])))

\* Index of the first row whose length is not n, 0 if there is none.
RECURSIVE FirstBadRow(_, _, _)
FirstBadRow(rows, n, i) ==
    IF i > Len(rows) THEN 0
    ELSE IF Len(rows[i]) # n THEN i
    ELSE FirstBadRow(rows, n, i + 1)

\* insert_into_table that keeps the rows converted before the malformed one.
insert_into_table_partial(s, a) ==
    LET catalog_name == Get(a, "catalog_name")
        schema_name  == Get(a, "schema_name")
        table_name   == Get(a, "table_name")
        rows         == GetDefault(a, "rows", <<>>)
        table_key    == get_table_key(catalog_name, schema_name, table_name)
    IN  IF Falsy(catalog_name) \/ Falsy(schema_name) \/ Falsy(table_name)
        THEN <<s, Error("catalog_name, schema_name, and table_name are required")>>
        ELSE IF table_key \notin DOMAIN s.tables
        THEN <<s, Error("Table '" \o table_key \o "' does not exist")>>
        ELSE IF rows = <<>>
        THEN <<s, Error("No rows provided")>>
        ELSE LET table        == s.tables[table_key]
                 column_names == [i \in 1..Len(table.columns) |->
                                     table.columns[i].name]
                 conv         == ConvertRows(column_names, rows, 1, <<>>)
                 new_rows     == conv[2]
                 updated_data == table.data \o new_rows
                 updated_table == [table EXCEPT !.data = updated_data]
             IN  IF ~conv[1]
                 THEN <<[s EXCEPT !.tables =
                             DictPut(s.tables, table_key, updated_table)], Error("Row has a wrong number of values")>>
                 ELSE <<[s EXCEPT !.tables =
                             DictPut(s.tables, table_key, updated_table)],
                        [success |-> TRUE, rows_inserted |-> Len(new_rows)]>>

\* insert_into_table that puts the new rows in front of the old ones.
insert_into_table_prepending(s, a) ==
    LET catalog_name == Get(a, "catalog_name")
        schema_name  == Get(a, "schema_name")
        table_name   == Get(a, "table_name")
        rows         == GetDefault(a, "rows", <<>>)
        table_key    == get_table_key(catalog_name, schema_name, table_name)
    IN  IF Falsy(catalog_name) \/ Falsy(schema_name) \/ Falsy(table_name)
        THEN <<s, Error("catalog_name, schema_name, and table_name are required")>>
        ELSE IF table_key \notin DOMAIN s.tables
        THEN <<s, Error("Table '" \o table_key \o "' does not exist")>>
        ELSE IF rows = <<>>
        THEN <<s, Error("No rows provided")>>
        ELSE LET table        == s.tables[table_key]
                 column_names == [i \in 1..Len(table.columns) |->
                                     table.columns[i].name]
                 conv         == ConvertRows(column_names, rows, 1, <<>>)
                 new_rows     == conv[2]
                 updated_data == new_rows \o table.data
                 updated_table == [table EXCEPT !.data = updated_data]
             IN  IF ~conv[1]
                 THEN <<s, Error("Row has a wrong number of values")>>
                 ELSE <<[s EXCEPT !.tables =
                             DictPut(s.tables, table_key, updated_table)],
                        [success |-> TRUE, rows_inserted |-> Len(new_rows)]>>

insert_into_table(s, a) ==
    LET catalog_name == Get(a, "catalog_name")
        schema_name  == Get(a, "schema_name")
        table_name   == Get(a, "table_name")
        rows         == GetDefault(a, "rows", <<>>)
        table_key    == get_table_key(catalog_name, schema_name, table_name)
    IN  IF Falsy(catalog_name) \/ Falsy(schema_name) \/ Falsy(table_name)
        THEN <<s, Error("catalog_name, schema_name, and table_name are required")>>
        ELSE IF table_key \notin DOMAIN s.tables
        THEN <<s, Error("Table '" \o table_key \o "' does not exist")>>
        ELSE IF rows = <<>>
        THEN <<s, Error("No rows provided")>>
        ELSE LET table        == s.tables[table_key]
                 column_names == [i \in 1..Len(table.columns) |->
                                     table.columns[i].name]
                 conv         == ConvertRows(column_names, rows, 1, <<>>)
                 new_rows     == conv[2]
                 updated_data == table.data \o new_rows
                 updated_table == [table EXCEPT !.data = updated_data]
             IN  IF ~conv[1]
                 THEN <<s, Error("Row has wrong number of values")>>
                 ELSE <<[s EXCEPT !.tables =
                             DictPut(s.tables, table_key, updated_table)],
                        [success |-> TRUE, rows_inserted |-> Len(new_rows)]>>

\* query_table that applies the query as a filter no row satisfies.
query_table_filtering(s, a) ==
    LET catalog_name == Get(a, "catalog_name")
        schema_name  == Get(a, "schema_name")
        table_name   == Get(a, "table_name")
        query        == Get(a, "query")
        table_key    == get_table_key(catalog_name, schema_name, table_name)
    IN  IF Falsy(catalog_name) \/ Falsy(schema_name) \/ Falsy(table_name)
        THEN <<s, Error("catalog_name, schema_name, and table_name are required")>>
        ELSE IF table_key \notin DOMAIN s.tables
        THEN <<s, Error("Table '" \o table_key \o "' does not exist")>>
        ELSE LET results == IF Falsy(query) THEN s.tables[table_key].data
                            ELSE <<>>
             IN  <<s, [results |-> results, row_count |-> Len(results)]>>

query_table(s, a) ==
    LET catalog_name == Get(a, "catalog_name")
        schema_name  == Get(a, "schema_name")
        table_name   == Get(a, "table_name")
        table_key    == get_table_key(catalog_name, schema_name, table_name)
    IN  IF Falsy(catalog_name) \/ Falsy(schema_name) \/ Falsy(table_name)
        THEN <<s, Error("catalog_name, schema_name, and table_name are required")>>
        ELSE IF table_key \notin DOMAIN s.tables
        THEN <<s, Error("Table '" \o table_key \o "' does not exist")>>
        ELSE LET results == s.tables[table_key].data
             IN  <<s, [results |-> results, row_count |-> Len(results)]>>

-----------------------------------------------------------------------------
(* tools.py: permissions                                                   *)

\* p.principal == principal and p.securable_name == securable_name
\* and p.privilege == privilege
SamePermission(p, principal, privilege, securable_name) ==
    /\ p.principal = principal
    /\ p.securable_name = securable_name
    /\ p.privilege = privilege

\* [p for p in permissions if not SamePermission(p, ...)], from index i on.
RECURSIVE FilterPermissions(_, _, _, _, _)
FilterPermissions(permissions, principal, privilege, securable_name, i) ==
    IF i > Len(permissions) THEN <<>>
    ELSE LET rest == FilterPermissions(permissions, principal, privilege,
                                       securable_name, i + 1)
         IN  IF SamePermission(permissions[i], principal, privilege,
                               securable_name)
             THEN rest
             ELSE <<permissions[i]>> \o rest

\* grant_privilege whose duplicate check also compares securable_type.
grant_privilege_comparing_type(s, a) ==
    LET privilege      == Get(a, "privilege")
        securable_type == Get(a, "securable_type")
        securable_name == Get(a, "securable_name")
        principal      == Get(a, "principal")
        existing_permission ==
            \E i \in 1..Len(s.permissions) :
                /\ SamePermission(s.permissions[i], principal, privilege,
                                  securable_name)
                /\ s.permissions[i].securable_type = securable_type
    IN  IF Falsy(privilege) \/ Falsy(securable_type)
           \/ Falsy(securable_name) \/ Falsy(principal)
        THEN <<s, Error("privilege, securable_type, securable_name, and principal are required")>>
        ELSE IF existing_permission
        THEN <<s, Error("Permission already granted")>>
        ELSE <<[s EXCEPT !.permissions =
                    s.permissions \o
                    <<Permission(principal, privilege, securable_type,
                                 securable_name)>>],
               [success |-> TRUE,
                permission |-> privilege \o " on " \o securable_name
                               \o " to " \o principal]>>

grant_privilege(s, a) ==
    LET privilege      == Get(a, "privilege")
        securable_type == Get(a, "securable_type")
        securable_name == Get(a, "securable_name")
        principal      == Get(a, "principal")
        existing_permission ==
            \E i \in 1..Len(s.permissions) :
                SamePermission(s.permissions[i], principal, privilege,
                               securable_name)
    IN  IF Falsy(privilege) \/ Falsy(securable_type)
           \/ Falsy(securable_name) \/ Falsy(principal)
        THEN <<s, Error("privilege, securable_type, securable_name, and principal are required")>>
        ELSE IF existing_permission
        THEN <<s, Error("Permission already granted")>>
        ELSE <<[s EXCEPT !.permissions =
                    s.permissions \o
                    <<Permission(principal, privilege, securable_type,
                                 securable_name)>>],
               [success |-> TRUE,
                permission |-> privilege \o " on " \o securable_name
                               \o " to " \o principal]>>

\* revoke_privilege that matches on principal and privilege only.
revoke_privilege_ignoring_name(s, a) ==
    LET privilege      == Get(a, "privilege")
        securable_name == Get(a, "securable_name")
        principal      == Get(a, "principal")
        new_permissions ==
            SelectSeq(s.permissions,
                      LAMBDA p : ~(p.principal = principal
                                   /\ p.privilege = privilege))
    IN  IF Falsy(privilege) \/ Falsy(securable_name) \/ Falsy(principal)
        THEN <<s, Error("privilege, securable_name, and principal are required")>>
        ELSE IF Len(new_permissions) = Len(s.permissions)
        THEN <<s, Error("Permission not found")>>
        ELSE <<[s EXCEPT !.permissions = new_permissions],
               [success |-> TRUE]>>

revoke_privilege(s, a) ==
    LET privilege      == Get(a, "privilege")
        securable_name == Get(a, "securable_name")
        principal      == Get(a, "principal")
        new_permissions ==
            FilterPermissions(s.permissions, principal, privilege,
                              securable_name, 1)
    IN  IF Falsy(privilege) \/ Falsy(securable_name) \/ Falsy(principal)
        THEN <<s, Error("privilege, securable_name, and principal are required")>>
        ELSE IF Len(new_permissions) = Len(s.permissions)
        THEN <<s, Error("Permission not found")>>
        ELSE <<[s EXCEPT !.permissions = new_permissions],
               [success |-> TRUE]>>

-----------------------------------------------------------------------------
(* tools.py: notebooks, clusters, jobs                                     *)

create_notebook(s, a) ==
    LET path     == Get(a, "path")
        language == GetDefault(a, "language", "python")
    IN  IF Falsy(path)
        THEN <<s, Error("path is required")>>
        ELSE IF path \in DOMAIN s.notebooks
        THEN <<s, Error("Notebook '" \o path \o "' already exists")>>
        ELSE <<[s EXCEPT !.notebooks =
                    DictPut(s.notebooks, path, Notebook(path, language))],
               [success |-> TRUE, notebook |-> path]>>

list_notebooks(s, a) ==
    <<s, [notebooks |->
            {[path |-> s.notebooks[k].path,
              language |-> s.notebooks[k].language,
              cell_count |-> Len(s.notebooks[k].cells),
              attached_cluster |-> s.notebooks[k].attached_cluster_id] :
             k \in DOMAIN s.notebooks}]>>

\* run_notebook_cell that puts the new cell in front of the others.
run_notebook_cell_prepending(s, a) ==
    LET notebook_path == Get(a, "notebook_path")
        cell_content  == Get(a, "cell_content")
    IN  IF Falsy(notebook_path) \/ Falsy(cell_content)
        THEN <<s, Error("notebook_path and cell_content are required")>>
        ELSE IF notebook_path \notin DOMAIN s.notebooks
        THEN <<s, Error("Notebook '" \o notebook_path \o "' does not exist")>>
        ELSE LET notebook  == s.notebooks[notebook_path]
                 new_cells == <<cell_content>> \o notebook.cells
                 updated_notebook == [notebook EXCEPT !.cells = new_cells]
             IN  <<[s EXCEPT !.notebooks =
                        DictPut(s.notebooks, notebook_path, updated_notebook)],
                   [success |-> TRUE, cell_executed |-> TRUE]>>

run_notebook_cell(s, a) ==
    LET notebook_path == Get(a, "notebook_path")
        cell_content  == Get(a, "cell_content")
    IN  IF Falsy(notebook_path) \/ Falsy(cell_content)
        THEN <<s, Error("notebook_path and cell_content are required")>>
        ELSE IF notebook_path \notin DOMAIN s.notebooks
        THEN <<s, Error("Notebook '" \o notebook_path \o "' does not exist")>>
        ELSE LET notebook  == s.notebooks[notebook_path]
                 new_cells == notebook.cells \o <<cell_content>>
                 updated_notebook == [notebook EXCEPT !.cells = new_cells]
             IN  <<[s EXCEPT !.notebooks =
                        DictPut(s.notebooks, notebook_path, updated_notebook)],
                   [success |-> TRUE, cell_executed |-> TRUE]>>

create_visualization(s, a) ==
    LET notebook_path      == Get(a, "notebook_path")
        visualization_type == GetDefault(a, "visualization_type", "bar")
        x_column           == Get(a, "x_column")
        y_column           == Get(a, "y_column")
        group_by           == Get(a, "group_by")
        viz_cell == "VISUALIZATION: type=" \o Str(visualization_type)
                    \o ", x=" \o Str(x_column) \o ", y=" \o Str(y_column)
                    \o ", group_by=" \o Str(group_by)
    IN  IF Falsy(notebook_path)
        THEN <<s, Error("notebook_path is required")>>
        ELSE IF notebook_path \notin DOMAIN s.notebooks
        THEN <<s, Error("Notebook '" \o notebook_path \o "' does not exist")>>
        ELSE LET notebook  == s.notebooks[notebook_path]
                 new_cells == notebook.cells \o <<viz_cell>>
                 updated_notebook == [notebook EXCEPT !.cells = new_cells]
             IN  <<[s EXCEPT !.notebooks =
                        DictPut(s.notebooks, notebook_path, updated_notebook)],
                   [success |-> TRUE, visualization_created |-> TRUE]>>

list_clusters(s, a) ==
    <<s, [clusters |->
            {[cluster_id |-> s.clusters[k].cluster_id,
              name |-> s.clusters[k].name,
              state |-> s.clusters[k].state,
              node_type |-> s.clusters[k].node_type,
              num_workers |-> s.clusters[k].num_workers] :
             k \in DOMAIN s.clusters}]>>

\* Pydantic's validation of `num_workers: int` on the strings the model
\* passes: a decimal string is converted, any other string is rejected.
IntStrings == {"0", "1", "2", "3"}

ParseInt(x) == CASE x = "0" -> 0 [] x = "1" -> 1 [] x = "2" -> 2 [] x = "3" -> 3

\* create_cluster that refuses a workspace whose cluster count is at the
\* ceiling of 100.
create_cluster_enforcing_ceiling(s, a, uuid4) ==
    LET name          == Get(a, "name")
        node_type     == GetDefault(a, "node_type", "i3.xlarge")
        spark_version == GetDefault(a, "spark_version", "13.3.x-scala2.12")
        cluster_id    == uuid4
    IN  IF Falsy(name)
        THEN <<s, Error("name is required")>>
        ELSE IF Cardinality(DOMAIN s.clusters) >= 100
        THEN <<s, Error("Maximum number of clusters (100) exceeded")>>
        ELSE IF "num_workers" \in DOMAIN a /\ a.num_workers \notin IntStrings
        THEN <<s, Raise("ValidationError")>>
        ELSE LET num_workers == IF "num_workers" \in DOMAIN a
                                THEN ParseInt(a.num_workers) ELSE 1
             IN  <<[s EXCEPT !.clusters =
                        DictPut(s.clusters, cluster_id,
                                Cluster(cluster_id, name, node_type,
                                        num_workers, spark_version))],
                   [success |-> TRUE, cluster_id |-> cluster_id]>>

\* uuid4 is the string str(uuid.uuid4()) returned to this call.
create_cluster(s, a, uuid4) ==
    LET name          == Get(a, "name")
        node_type     == GetDefault(a, "node_type", "i3.xlarge")
        spark_version == GetDefault(a, "spark_version", "13.3.x-scala2.12")
        cluster_id    == uuid4
    IN  IF Falsy(name)
        THEN <<s, Error("name is required")>>
        ELSE IF "num_workers" \in DOMAIN a /\ a.num_workers \notin IntStrings
        THEN <<s, Raise("ValidationError")>>
        ELSE LET num_workers == IF "num_workers" \in DOMAIN a
                                THEN ParseInt(a.num_workers) ELSE 1
             IN  <<[s EXCEPT !.clusters =
                        DictPut(s.clusters, cluster_id,
                                Cluster(cluster_id, name, node_type,
                                        num_workers, spark_version))],
                   [success |-> TRUE, cluster_id |-> cluster_id]>>

\* attach_to_cluster that looks for the cluster after updating the notebook.
attach_to_cluster_late_check(s, a) ==
    LET notebook_path == Get(a, "notebook_path")
        cluster_id    == Get(a, "cluster_id")
    IN  IF Falsy(notebook_path) \/ Falsy(cluster_id)
        THEN <<s, Error("notebook_path and cluster_id are required")>>
        ELSE IF notebook_path \notin DOMAIN s.notebooks
        THEN <<s, Error("Notebook '" \o notebook_path \o "' does not exist")>>
        ELSE LET notebook == s.notebooks[notebook_path]
                 updated_notebook ==
                     [notebook EXCEPT !.attached_cluster_id = cluster_id]
                 new_state ==
                     [s EXCEPT !.notebooks =
                        DictPut(s.notebooks, notebook_path, updated_notebook)]
             IN  IF cluster_id \notin DOMAIN s.clusters
                 THEN <<new_state,
                        Error("Cluster '" \o cluster_id \o "' does not exist")>>
                 ELSE <<new_state, [success |-> TRUE, attached |-> TRUE]>>

attach_to_cluster(s, a) ==
    LET notebook_path == Get(a, "notebook_path")
        cluster_id    == Get(a, "cluster_id")
    IN  IF Falsy(notebook_path) \/ Falsy(cluster_id)
        THEN <<s, Error("notebook_path and cluster_id are required")>>
        ELSE IF notebook_path \notin DOMAIN s.notebooks
        THEN <<s, Error("Notebook '" \o notebook_path \o "' does not exist")>>
        ELSE IF cluster_id \notin DOMAIN s.clusters
        THEN <<s, Error("Cluster '" \o cluster_id \o "' does not exist")>>
        ELSE LET notebook == s.notebooks[notebook_path]
                 updated_notebook ==
                     [notebook EXCEPT !.attached_cluster_id = cluster_id]
             IN  <<[s EXCEPT !.notebooks =
                        DictPut(s.notebooks, notebook_path, updated_notebook)],
                   [success |-> TRUE, attached |-> TRUE]>>

list_jobs(s, a) ==
    <<s, [jobs |->
            {[job_id |-> s.jobs[k].job_id,
              name |-> s.jobs[k].name,
              schedule |-> s.jobs[k].schedule,
              task_count |-> Len(s.jobs[k].tasks)] : k \in DOMAIN s.jobs}]>>

\* create_job that files the job under its name.
create_job_keyed_by_name(s, a, uuid4) ==
    LET name     == Get(a, "name")
        schedule == Get(a, "schedule")
        tasks    == GetDefault(a, "tasks", <<>>)
        job_id   == name
    IN  IF Falsy(name)
        THEN <<s, Error("name is required")>>
        ELSE <<[s EXCEPT !.jobs =
                    DictPut(s.jobs, job_id, Job(job_id, name, schedule, tasks))],
               [success |-> TRUE, job_id |-> job_id]>>

create_job(s, a, uuid4) ==
    LET name     == Get(a, "name")
        schedule == Get(a, "schedule")
        tasks    == GetDefault(a, "tasks", <<>>)
        job_id   == uuid4
    IN  IF Falsy(name)
        THEN <<s, Error("name is required")>>
        ELSE <<[s EXCEPT !.jobs =
                    DictPut(s.jobs, job_id, Job(job_id, name, schedule, tasks))],
               [success |-> TRUE, job_id |-> job_id]>>

-----------------------------------------------------------------------------
(* registry.py                                                             *)

ToolNames ==
    {"use_catalog", "list_catalogs", "create_catalog", "list_schemas",
     "create_schema", "list_tables", "create_table", "insert_into_table",
     "query_table", "grant_privilege", "revoke_privilege", "create_notebook",
     "list_notebooks", "run_notebook_cell", "create_visualization",
     "list_clusters", "create_cluster", "attach_to_cluster", "list_jobs",
     "create_job"}

\* get_tool_spec(tool_name)["parameters"]["required"]
RequiredParameters ==
    [use_catalog |-> {"catalog_name"},
     list_catalogs |-> {},
     create_catalog |-> {"catalog_name"},
     list_schemas |-> {"catalog_name"},
     create_schema |-> {"catalog_name", "schema_name"},
     list_tables |-> {"catalog_name", "schema_name"},
     create_table |-> {"catalog_name", "schema_name", "table_name", "columns"},
     insert_into_table |-> {"catalog_name", "schema_name", "table_name", "rows"},
     query_table |-> {"catalog_name", "schema_name", "table_name"},
     grant_privilege |->
        {"privilege", "securable_type", "securable_name", "principal"},
     revoke_privilege |-> {"privilege", "securable_name", "principal"},
     create_notebook |-> {"path"},
     list_notebooks |-> {},
     run_notebook_cell |-> {"notebook_path", "cell_content"},
     create_visualization |-> {"notebook_path"},
     list_clusters |-> {},
     create_cluster |-> {"name"},
     attach_to_cluster |-> {"notebook_path", "cluster_id"},
     list_jobs |-> {},
     create_job |-> {"name"}]

\* TOOL_REGISTRY[tool_name](s, a); uuid4 is what uuid.uuid4() returns to the
\* two tools that call it.
TOOL_REGISTRY(tool_name, s, a, uuid4) ==
    CASE tool_name = "use_catalog" -> use_catalog(s, a)
      [] tool_name = "list_catalogs" -> list_catalogs(s, a)
      [] tool_name = "create_catalog" -> create_catalog(s, a)
      [] tool_name = "list_schemas" -> list_schemas(s, a)
      [] tool_name = "create_schema" -> create_schema(s, a)
      [] tool_name = "list_tables" -> list_tables(s, a)
      [] tool_name = "create_table" -> create_table(s, a)
      [] tool_name = "insert_into_table" -> insert_into_table(s, a)
      [] tool_name = "query_table" -> query_table(s, a)
      [] tool_name = "grant_privilege" -> grant_privilege(s, a)
      [] tool_name = "revoke_privilege" -> revoke_privilege(s, a)
      [] tool_name = "create_notebook" -> create_notebook(s, a)
      [] tool_name = "list_notebooks" -> list_notebooks(s, a)
      [] tool_name = "run_notebook_cell" -> run_notebook_cell(s, a)
      [] tool_name = "create_visualization" -> create_visualization(s, a)
      [] tool_name = "list_clusters" -> list_clusters(s, a)
      [] tool_name = "create_cluster" -> create_cluster(s, a, uuid4)
      [] tool_name = "attach_to_cluster" -> attach_to_cluster(s, a)
      [] tool_name = "list_jobs" -> list_jobs(s, a)
      [] tool_name = "create_job" -> create_job(s, a, uuid4)

-----------------------------------------------------------------------------
(* The caller: which tool calls are made, with which arguments.  A missing *)
(* argument is a key the args mapping does not hold.                       *)

\* The args entry for key k, none when the caller leaves the key out.
Opt(k, v) == IF v = None THEN <<>> ELSE (k :> v)

\* args without key k.
Without(a, k) == [x \in DOMAIN a \ {k} |-> a[x]]

\* Every args mapping of `full`, and one of them with each key left out.
WithMissing(full) ==
    full \cup LET a == CHOOSE x \in full : TRUE
              IN  {Without(a, k) : k \in DOMAIN a}

CatalogNames == {"a", "b"}
SchemaNames == {"s"}
TableNames == {"t"}
Owners == {None, "bob"}
Comments == {None, "note"}

SchemaRefs ==
    WithMissing({[catalog_name |-> c, schema_name |-> sn] :
                    c \in CatalogNames, sn \in SchemaNames})

TableRefs ==
    {[catalog_name |-> c, schema_name |-> sn, table_name |-> t] :
        c \in CatalogNames, sn \in SchemaNames, t \in TableNames}

c_id == [name |-> "id", type |-> "INT"]
c_name == [name |-> "name"]
c_anonymous == [type |-> "INT"]

\* Values of the columns argument.
ColumnLists == {<<>>, <<c_id, c_name>>, <<c_id, c_id>>, <<c_anonymous>>}

r0 == <<>>
r1 == <<1>>
r12 == <<1, 2>>
r21 == <<2, 1>>

\* Values of the rows argument.
RowLists ==
    {<<>>, <<r12>>, <<r21>>, <<r21, r12>>, <<r12, r1>>, <<r1, r12>>, <<r12, r1, r21>>,
     <<r0>>, <<r0, r1>>}

Grants ==
    {[privilege |-> "SELECT", securable_type |-> st, securable_name |-> sn,
      principal |-> "analysts"] :
        st \in {"TABLE", "CATALOG"}, sn \in {"a", "a.s.t"}}

NotebookPaths == {None, "/n", "/m"}
Languages == {None, "julia"}
CellContents == {None, "SELECT 1"}
VisualizationTypes == {None, "pie"}

Uuids == {"u1", "u2"}
ClusterNames == {None, "etl"}
NumWorkers == {None, "2", "many"}
ClusterIds == {None} \cup Uuids
JobNames == {None, "nightly"}
Schedules == {None, "0 0 * * *"}

\* Sum of len(d[k][field]) over the keys of d.
RECURSIVE SumLen(_, _)
SumLen(d, field) ==
    IF DOMAIN d = {} THEN 0
    ELSE LET k == CHOOSE x \in DOMAIN d : TRUE
         IN  Len(d[k][field])
             + SumLen([x \in DOMAIN d \ {k} |-> d[x]], field)

\* Size of a workspace: a catalog, schema, table, row or cell counts 1, a
\* notebook, cluster, job or permission counts 2.
Size(s) ==
    Cardinality(DOMAIN s.catalogs) + Cardinality(DOMAIN s.schemas)
    + Cardinality(DOMAIN s.tables) + SumLen(s.tables, "data")
    + SumLen(s.notebooks, "cells")
    + 2 * (Cardinality(DOMAIN s.notebooks) + Cardinality(DOMAIN s.clusters)
           + Cardinality(DOMAIN s.jobs) + Len(s.permissions))

\* `state, response = tool(state, args)`: the caller replaces its state by
\* the returned one; when the tool raises, res[1] is the state it was given.
Call(t, a, res) ==
    /\ tool = "none"
    /\ Size(res[1]) <= MaxSize
    /\ prev' = state
    /\ state' = res[1]
    /\ tool' = t
    /\ args' = a
    /\ response' = res[2]
    /\ UNCHANGED <<envVars, evalVars>>

\* No tool has been called.
NoCall ==
    /\ state = DatabricksState
    /\ prev = DatabricksState
    /\ tool = "none"
    /\ args = <<>>
    /\ response = <<>>

\* No Environment has been constructed.
NoEnvironment ==
    /\ envs = <<>>
    /\ op = <<>>

\* evaluate_task has not been called.
NoEvaluation ==
    /\ final_state = DatabricksState
    /\ goal_state = DatabricksState
    /\ result = <<>>

Init ==
    /\ NoCall
    /\ NoEnvironment
    /\ NoEvaluation

\* The caller is done with the response and goes on to its next call.
Continue ==
    /\ tool # "none"
    /\ prev' = state
    /\ tool' = "none"
    /\ args' = <<>>
    /\ response' = <<>>
    /\ UNCHANGED <<state, envVars, evalVars>>

UseCatalog ==
    \E c \in CatalogNames \cup {None, ""} :
        LET a == Opt("catalog_name", c)
        IN  Call("use_catalog", a, use_catalog(state, a))

ListCatalogs ==
    Call("list_catalogs", <<>>, list_catalogs(state, <<>>))

CreateCatalog ==
    \E c \in CatalogNames \cup {None, ""}, o \in Owners :
        LET a == Opt("catalog_name", c) @@ Opt("owner", o)
        IN  Call("create_catalog", a, create_catalog(state, a))

ListSchemas ==
    \E c \in CatalogNames \cup {None} :
        LET a == Opt("catalog_name", c)
        IN  Call("list_schemas", a, list_schemas(state, a))

CreateSchema ==
    \E ref \in SchemaRefs, cm \in Comments :
        LET a == ref @@ Opt("comment", cm)
        IN  Call("create_schema", a, create_schema(state, a))

ListTables ==
    \E a \in SchemaRefs :
        Call("list_tables", a, list_tables(state, a))

CreateTable ==
    \E a \in WithMissing({ref @@ [columns |-> cols] :
                            ref \in TableRefs, cols \in ColumnLists}) :
        Call("create_table", a, create_table(state, a))

InsertIntoTable ==
    \E a \in WithMissing({ref @@ [rows |-> rows] :
                            ref \in TableRefs, rows \in RowLists}) :
        Call("insert_into_table", a, insert_into_table(state, a))

QueryTable ==
    \E a \in WithMissing({ref @@ [query |-> "id = 1"] : ref \in TableRefs}) :
        Call("query_table", a, query_table(state, a))

GrantPrivilege ==
    \E a \in WithMissing(Grants) :
        Call("grant_privilege", a, grant_privilege(state, a))

RevokePrivilege ==
    \E a \in WithMissing({Without(g, "securable_type") : g \in Grants}) :
        Call("revoke_privilege", a, revoke_privilege(state, a))

CreateNotebook ==
    \E p \in NotebookPaths, l \in Languages :
        LET a == Opt("path", p) @@ Opt("language", l)
        IN  Call("create_notebook", a, create_notebook(state, a))

ListNotebooks ==
    Call("list_notebooks", <<>>, list_notebooks(state, <<>>))

RunNotebookCell ==
    \E p \in NotebookPaths, c \in CellContents :
        LET a == Opt("notebook_path", p) @@ Opt("cell_content", c)
        IN  Call("run_notebook_cell", a, run_notebook_cell(state, a))

CreateVisualization ==
    \E p \in NotebookPaths, vt \in VisualizationTypes :
        LET a == Opt("notebook_path", p) @@ Opt("visualization_type", vt)
        IN  Call("create_visualization", a, create_visualization(state, a))

ListClusters ==
    Call("list_clusters", <<>>, list_clusters(state, <<>>))

\* uuid.uuid4() returns an identifier no cluster or job has yet.
CreateCluster ==
    \E n \in ClusterNames, w \in NumWorkers,
       u \in Uuids \ (DOMAIN state.clusters \cup DOMAIN state.jobs) :
        LET a == Opt("name", n) @@ Opt("num_workers", w)
        IN  Call("create_cluster", a, create_cluster(state, a, u))

AttachToCluster ==
    \E p \in NotebookPaths, c \in ClusterIds :
        LET a == Opt("notebook_path", p) @@ Opt("cluster_id", c)
        IN  Call("attach_to_cluster", a, attach_to_cluster(state, a))

ListJobs ==
    Call("list_jobs", <<>>, list_jobs(state, <<>>))

CreateJob ==
    \E n \in JobNames, sc \in Schedules,
       u \in Uuids \ (DOMAIN state.clusters \cup DOMAIN state.jobs) :
        LET a == Opt("name", n) @@ Opt("schedule", sc)
        IN  Call("create_job", a, create_job(state, a, u))

Next ==
    \/ Continue
    \/ UseCatalog
    \/ ListCatalogs
    \/ CreateCatalog
    \/ ListSchemas
    \/ CreateSchema
    \/ ListTables
    \/ CreateTable
    \/ InsertIntoTable
    \/ QueryTable
    \/ GrantPrivilege
    \/ RevokePrivilege
    \/ CreateNotebook
    \/ ListNotebooks
    \/ RunNotebookCell
    \/ CreateVisualization
    \/ ListClusters
    \/ CreateCluster
    \/ AttachToCluster
    \/ ListJobs
    \/ CreateJob

Spec == Init /\ [][Next]_vars

-----------------------------------------------------------------------------
(* The caller that uses dotted names                                       *)

\* The tools take any non-empty string as a name, a dot included.
DottedCatalogNames == {"a", "a.b"}
DottedSchemaNames == {"c", "b.c"}

CreateDottedCatalog ==
    \E c \in DottedCatalogNames :
        LET a == [catalog_name |-> c]
        IN  Call("create_catalog", a, create_catalog(state, a))

CreateDottedSchema ==
    \E c \in DottedCatalogNames, sn \in DottedSchemaNames :
        LET a == [catalog_name |-> c, schema_name |-> sn]
        IN  Call("create_schema", a, create_schema(state, a))

CreateDottedTable ==
    \E c \in DottedCatalogNames, sn \in DottedSchemaNames :
        LET a == [catalog_name |-> c, schema_name |-> sn, table_name |-> "t",
                  columns |-> <<c_id>>]
        IN  Call("create_table", a, create_table(state, a))

ListDottedTables ==
    \E c \in DottedCatalogNames, sn \in DottedSchemaNames :
        LET a == [catalog_name |-> c, schema_name |-> sn]
        IN  Call("list_tables", a, list_tables(state, a))

DottedNext ==
    \/ CreateDottedCatalog
    \/ CreateDottedSchema
    \/ CreateDottedTable
    \/ ListDottedTables
    \/ Continue

DottedSpec == Init /\ [][DottedNext]_vars

-----------------------------------------------------------------------------
(* core/environment.py                                                     *)

\* Environment(**kw): kw holds initial_state when the caller passed a state;
\* `initial_state or DatabricksState()` otherwise.
Environment(kw) ==
    LET initial_state == IF "initial_state" \in DOMAIN kw
                         THEN kw.initial_state ELSE DatabricksState
    IN  [state |-> initial_state,
         conversation_history |-> <<>>,
         state_snapshots |-> <<initial_state>>]

\* The conversation-log entry of a tool call.
tool_call(tool_name, a, r) ==
    [type |-> "tool_call", tool |-> tool_name, args |-> a, response |-> r]

\* An except branch that hands the exception on.
tool_execution_failed_reraising(e) == e

\* The except branch of execute_tool: the value returned for exception e.
tool_execution_failed(e) == Error("Tool execution failed: " \o e.raised)

\* execute_tool that records the unknown tool's call in the log.
execute_tool_logging_unknown(env, tool_name, a, uuid4) ==
    IF tool_name \notin ToolNames
    THEN LET r == Error("Unknown tool: " \o tool_name)
         IN  <<[env EXCEPT !.conversation_history =
                               Append(@, tool_call(tool_name, a, r))], r>>
    ELSE LET res == TOOL_REGISTRY(tool_name, env.state, a, uuid4)
         IN  IF IsRaise(res[2])
             THEN <<env, tool_execution_failed(res[2])>>
             ELSE <<[env EXCEPT
                        !.state = res[1],
                        !.state_snapshots = Append(@, res[1]),
                        !.conversation_history =
                            Append(@, tool_call(tool_name, a, res[2]))],
                    res[2]>>

\* execute_tool that records the call of a tool that raised.
execute_tool_recording_failure(env, tool_name, a, uuid4) ==
    IF tool_name \notin ToolNames
    THEN <<env, Error("Unknown tool: " \o tool_name)>>
    ELSE LET res == TOOL_REGISTRY(tool_name, env.state, a, uuid4)
             r == IF IsRaise(res[2]) THEN tool_execution_failed(res[2])
                  ELSE res[2]
         IN  <<[env EXCEPT
                    !.state = res[1],
                    !.state_snapshots = Append(@, res[1]),
                    !.conversation_history =
                        Append(@, tool_call(tool_name, a, r))],
               r>>

\* execute_tool that takes a snapshot only when the state has changed.
execute_tool_skipping_unchanged(env, tool_name, a, uuid4) ==
    IF tool_name \notin ToolNames
    THEN <<env, Error("Unknown tool: " \o tool_name)>>
    ELSE LET res == TOOL_REGISTRY(tool_name, env.state, a, uuid4)
         IN  IF IsRaise(res[2])
             THEN <<env, tool_execution_failed(res[2])>>
             ELSE <<[env EXCEPT
                        !.state = res[1],
                        !.state_snapshots =
                            IF res[1] = env.state THEN @
                            ELSE Append(@, res[1]),
                        !.conversation_history =
                            Append(@, tool_call(tool_name, a, res[2]))],
                    res[2]>>

\* env.execute_tool(tool_name, a): <<the environment afterwards, the value
\* returned>>.
execute_tool(env, tool_name, a, uuid4) ==
    IF tool_name \notin ToolNames
    THEN <<env, Error("Unknown tool: " \o tool_name)>>
    ELSE LET res == TOOL_REGISTRY(tool_name, env.state, a, uuid4)
         IN  IF IsRaise(res[2])
             THEN <<env, tool_execution_failed(res[2])>>
             ELSE <<[env EXCEPT
                        !.state = res[1],
                        !.state_snapshots = Append(@, res[1]),
                        !.conversation_history =
                            Append(@, tool_call(tool_name, a, res[2]))],
                    res[2]>>

get_state(env) == env.state

\* reset that keeps the conversation log and the snapshots.
reset_state_only(env, kw) ==
    LET initial_state == IF "initial_state" \in DOMAIN kw
                         THEN kw.initial_state ELSE DatabricksState
    IN  [env EXCEPT !.state = initial_state]

\* env.reset(**kw)
reset(env, kw) ==
    LET initial_state == IF "initial_state" \in DOMAIN kw
                         THEN kw.initial_state ELSE DatabricksState
    IN  [env EXCEPT !.state = initial_state,
                    !.conversation_history = <<>>,
                    !.state_snapshots = <<initial_state>>]

\* The lists are returned as copies.
get_conversation_history(env) == env.conversation_history

get_state_snapshots(env) == env.state_snapshots

\* add_user_message that puts the message in front of the log.
add_user_message_prepending(env, message) ==
    [env EXCEPT !.conversation_history =
        <<[type |-> "user_message", content |-> message]>> \o @]

add_user_message(env, message) ==
    [env EXCEPT !.conversation_history =
        Append(@, [type |-> "user_message", content |-> message])]

add_agent_message(env, message) ==
    [env EXCEPT !.conversation_history =
        Append(@, [type |-> "agent_message", content |-> message])]

-----------------------------------------------------------------------------
(* The user of Environment instances                                       *)

\* Most log entries the instances hold together.
MaxLog == 3

Instances == {"env1", "env2"}

\* A workspace that holds catalog a and schema a.s.
Populated ==
    [DatabricksState EXCEPT
        !.catalogs = DictPut(<<>>, "a", Catalog("a", "admin", None)),
        !.schemas = DictPut(<<>>, "a.s", Schema("a", "s", "admin", None))]

\* Keyword arguments of Environment() and reset().
InitKwargs == {<<>>, [initial_state |-> Populated]}

\* The calls made: a creation (that fails when repeated), a read, a call
\* whose column has no name, a cluster with and without an integer
\* num_workers, and a tool that is not registered.
EnvCalls ==
    {<<"create_catalog", [catalog_name |-> "a"]>>,
     <<"list_catalogs", <<>>>>,
     <<"create_table", [catalog_name |-> "a", schema_name |-> "s",
                        table_name |-> "t", columns |-> <<c_anonymous>>]>>,
     <<"create_cluster", [name |-> "etl", num_workers |-> "many"]>>,
     <<"create_cluster", [name |-> "etl", num_workers |-> "2"]>>,
     <<"drop_catalog", [catalog_name |-> "a"]>>}

Messages == {"hello"}

\* What uuid.uuid4() may return to a call of tool_name.
UuidsFor(tool_name) ==
    IF tool_name \in {"create_cluster", "create_job"} THEN Uuids ELSE {None}

RECURSIVE LogTotal(_, _)
LogTotal(e, I) ==
    IF I = {} THEN 0
    ELSE LET i == CHOOSE x \in I : TRUE
         IN  Len(e[i].conversation_history) + LogTotal(e, I \ {i})

Operation(name, self, tool_name, a, r) ==
    [name |-> name, self |-> self, tool_name |-> tool_name, args |-> a,
     response |-> r]

EnvInit ==
    /\ NoCall
    /\ NoEvaluation
    /\ envs \in [Instances -> {Environment(kw) : kw \in InitKwargs}]
    /\ op = Operation("__init__", None, None, <<>>, <<>>)

ExecuteTool(self) ==
    \E c \in EnvCalls :
        \E uuid4 \in UuidsFor(c[1]) :
            LET res == execute_tool(envs[self], c[1], c[2], uuid4)
            IN  /\ LogTotal(envs, Instances) < MaxLog
                /\ envs' = [envs EXCEPT ![self] = res[1]]
                /\ op' = Operation("execute_tool", self, c[1], c[2], res[2])
                /\ UNCHANGED <<toolVars, evalVars>>

AddUserMessage(self) ==
    \E message \in Messages :
        /\ LogTotal(envs, Instances) < MaxLog
        /\ envs' = [envs EXCEPT ![self] = add_user_message(envs[self], message)]
        /\ op' = Operation("add_user_message", self, None,
                           [message |-> message], <<>>)
        /\ UNCHANGED <<toolVars, evalVars>>

\* add_agent_message on a log that all instances share.
AddAgentMessageShared(self) ==
    \E message \in Messages :
        /\ LogTotal(envs, Instances) < MaxLog
        /\ envs' = [i \in Instances |-> add_agent_message(envs[i], message)]
        /\ op' = Operation("add_agent_message", self, None,
                           [message |-> message], <<>>)
        /\ UNCHANGED <<toolVars, evalVars>>

AddAgentMessage(self) ==
    \E message \in Messages :
        /\ LogTotal(envs, Instances) < MaxLog
        /\ envs' = [envs EXCEPT ![self] = add_agent_message(envs[self], message)]
        /\ op' = Operation("add_agent_message", self, None,
                           [message |-> message], <<>>)
        /\ UNCHANGED <<toolVars, evalVars>>

Reset(self) ==
    \E kw \in InitKwargs :
        /\ envs' = [envs EXCEPT ![self] = reset(envs[self], kw)]
        /\ op' = Operation("reset", self, None, kw, <<>>)
        /\ UNCHANGED <<toolVars, evalVars>>

EnvNext ==
    \E self \in Instances :
        \/ ExecuteTool(self)
        \/ AddUserMessage(self)
        \/ AddAgentMessage(self)
        \/ Reset(self)

EnvSpec == EnvInit /\ [][EnvNext]_vars

-----------------------------------------------------------------------------
(* Vocabulary of the properties                                            *)

Fields ==
    {"catalogs", "schemas", "tables", "notebooks", "clusters", "jobs",
     "permissions", "active_catalog"}

\* The last call left every field outside F as it was.
SameExcept(F) == \A f \in Fields \ F : state[f] = prev[f]

\* The field each mutating tool is meant to replace.
NamedField ==
    [use_catalog |-> "active_catalog", create_catalog |-> "catalogs",
     create_schema |-> "schemas", create_table |-> "tables",
     insert_into_table |-> "tables", grant_privilege |-> "permissions",
     revoke_privilege |-> "permissions", create_notebook |-> "notebooks",
     run_notebook_cell |-> "notebooks", create_visualization |-> "notebooks",
     attach_to_cluster |-> "notebooks", create_cluster |-> "clusters",
     create_job |-> "jobs"]

\* Keys the arguments of the last call name.
ArgSchemaKey ==
    Get(args, "catalog_name") \o "." \o Get(args, "schema_name")

ArgTableKey ==
    Get(args, "catalog_name") \o "." \o Get(args, "schema_name")
        \o "." \o Get(args, "table_name")

ArgRows == IF "rows" \in DOMAIN args THEN args.rows ELSE <<>>

ColumnNames(table) == [i \in 1..Len(table.columns) |-> table.columns[i].name]

IsPrefix(p, q) == Len(p) <= Len(q) /\ SubSeq(q, 1, Len(p)) = p

\* (principal, privilege, securable_name) of a permission or of args.
Triple(p) == <<Get(p, "principal"), Get(p, "privilege"), Get(p, "securable_name")>>

Holds(permissions, triple) ==
    \E i \in 1..Len(permissions) : Triple(permissions[i]) = triple

-----------------------------------------------------------------------------
(* Properties                                                              *)

\* C1: a call that answers an error (or raises) leaves the workspace state
\* equal, in every field, to the state it was made on.
C1_ErrorLeavesStateUnchanged ==
    (IsError(response) \/ IsRaise(response)) =>
        /\ state = prev
        /\ \A f \in Fields : state[f] = prev[f]

\* An insert into an existing table was rejected.
C1_Witness ==
    /\ tool = "insert_into_table"
    /\ IsError(response)
    /\ ArgTableKey \in DOMAIN prev.tables
    /\ prev.tables[ArgTableKey].data # <<>>

\* C2: a successful call of a mutating tool changes no field of the state
\* other than the one collection the tool names.
C2_SuccessChangesOnlyNamedField ==
    IsSuccess(response) =>
        /\ tool \in DOMAIN NamedField
        /\ SameExcept({NamedField[tool]})

\* A notebook was attached to a cluster: notebooks changed, clusters did not.
C2_Witness ==
    /\ tool = "attach_to_cluster"
    /\ IsSuccess(response)
    /\ state.notebooks # prev.notebooks
    /\ state.clusters = prev.clusters
    /\ DOMAIN state.clusters # {}

\* C3: creating a catalog, schema, table or notebook under a key that is
\* already taken answers an error, keeps the existing entry as it was and
\* keeps the number of entries.
C3_DuplicateCreationRejected ==
    /\ (tool = "create_catalog"
        /\ Get(args, "catalog_name") \in DOMAIN prev.catalogs) =>
          /\ IsError(response)
          /\ state.catalogs[args.catalog_name] = prev.catalogs[args.catalog_name]
          /\ Cardinality(DOMAIN state.catalogs) = Cardinality(DOMAIN prev.catalogs)
    /\ (tool = "create_schema" /\ ArgSchemaKey \in DOMAIN prev.schemas) =>
          /\ IsError(response)
          /\ state.schemas[ArgSchemaKey] = prev.schemas[ArgSchemaKey]
          /\ Cardinality(DOMAIN state.schemas) = Cardinality(DOMAIN prev.schemas)
    /\ (tool = "create_table" /\ ArgTableKey \in DOMAIN prev.tables) =>
          /\ IsError(response)
          /\ state.tables[ArgTableKey] = prev.tables[ArgTableKey]
          /\ Cardinality(DOMAIN state.tables) = Cardinality(DOMAIN prev.tables)
    /\ (tool = "create_notebook"
        /\ Get(args, "path") \in DOMAIN prev.notebooks) =>
          /\ IsError(response)
          /\ state.notebooks[args.path] = prev.notebooks[args.path]
          /\ Cardinality(DOMAIN state.notebooks) = Cardinality(DOMAIN prev.notebooks)

\* A second create_schema of an existing key, with another comment, failed.
C3_Witness ==
    /\ tool = "create_schema"
    /\ ArgSchemaKey \in DOMAIN prev.schemas
    /\ Get(args, "comment") # prev.schemas[ArgSchemaKey].comment
    /\ IsError(response)
    /\ state.schemas = prev.schemas

\* C4: a call that names an absent parent resource answers an error and
\* leaves the state unchanged.
C4_AbsentParentRejected ==
    LET absent ==
          \/ tool = "create_schema"
             /\ Get(args, "catalog_name") \notin DOMAIN prev.catalogs
          \/ tool = "create_table" /\ ArgSchemaKey \notin DOMAIN prev.schemas
          \/ tool = "insert_into_table" /\ ArgTableKey \notin DOMAIN prev.tables
          \/ tool \in {"run_notebook_cell", "create_visualization"}
             /\ Get(args, "notebook_path") \notin DOMAIN prev.notebooks
          \/ tool = "attach_to_cluster"
             /\ \/ Get(args, "notebook_path") \notin DOMAIN prev.notebooks
                \/ Get(args, "cluster_id") \notin DOMAIN prev.clusters
    IN  absent => IsError(response) /\ state = prev

\* create_table in an existing catalog whose schema does not exist failed.
C4_Witness ==
    /\ tool = "create_table"
    /\ Get(args, "catalog_name") \in DOMAIN prev.catalogs
    /\ "schema_name" \in DOMAIN args
    /\ "columns" \in DOMAIN args
    /\ ArgSchemaKey \notin DOMAIN prev.schemas
    /\ IsError(response)

\* C5: insert_into_table with a row, at any position, whose number of values
\* is not the table's column count answers an error and appends no row.
C5_InsertIsAtomic ==
    (/\ tool = "insert_into_table"
     /\ ArgTableKey \in DOMAIN prev.tables
     /\ \E i \in 1..Len(ArgRows) :
           Len(ArgRows[i]) # Len(prev.tables[ArgTableKey].columns)) =>
        /\ IsError(response)
        /\ state.tables[ArgTableKey].data = prev.tables[ArgTableKey].data
        /\ state.tables = prev.tables

\* A call whose first row is well formed and a later one is not was
\* rejected on a table that has rows.
C5_Witness ==
    /\ tool = "insert_into_table"
    /\ ArgTableKey \in DOMAIN prev.tables
    /\ Len(ArgRows) >= 2
    /\ Len(ArgRows[1]) = Len(prev.tables[ArgTableKey].columns)
    /\ Len(ArgRows[2]) # Len(prev.tables[ArgTableKey].columns)
    /\ prev.tables[ArgTableKey].data # <<>>
    /\ IsError(response)

\* C6: a successful insert of n rows answers rows_inserted = n and the new
\* row list is the old one followed by the records of the n rows in the
\* order given; over any call a table's rows are a prefix of its later rows.
C6_InsertAppends ==
    /\ (tool = "insert_into_table" /\ IsSuccess(response)) =>
          LET old == prev.tables[ArgTableKey]
              new == state.tables[ArgTableKey]
              n   == Len(ArgRows)
          IN  /\ response.rows_inserted = n
              /\ Len(new.data) = Len(old.data) + n
              /\ SubSeq(new.data, 1, Len(old.data)) = old.data
              /\ \A i \in 1..n :
                    new.data[Len(old.data) + i] = DictZip(ColumnNames(old), ArgRows[i])
    /\ \A k \in DOMAIN prev.tables :
          /\ k \in DOMAIN state.tables
          /\ IsPrefix(prev.tables[k].data, state.tables[k].data)

\* Rows were appended to a table that already had rows.
C6_Witness ==
    /\ tool = "insert_into_table"
    /\ IsSuccess(response)
    /\ prev.tables[ArgTableKey].data # <<>>
    /\ state.tables[ArgTableKey].data[1] # state.tables[ArgTableKey].data[2]

\* C7: in every reachable state the field names of every row record of every
\* table are the table's column-name list, same length and same order, also
\* for tables created with a repeated column name or with no column.
C7_RowFieldsAreColumns ==
    \A k \in DOMAIN state.tables :
        \A i \in 1..Len(state.tables[k].data) :
            RowKeys(state.tables[k].data[i]) = ColumnNames(state.tables[k])

\* C8: no two permissions share (principal, privilege, securable_name);
\* granting a held tuple answers an error and changes nothing, whatever the
\* securable_type; granting a tuple not held appends exactly one Permission.
C8_PermissionsAreUnique ==
    /\ \A i, j \in 1..Len(state.permissions) :
          Triple(state.permissions[i]) = Triple(state.permissions[j]) => i = j
    /\ (tool = "grant_privilege" /\ Holds(prev.permissions, Triple(args))) =>
          IsError(response) /\ state.permissions = prev.permissions
    /\ (tool = "grant_privilege" /\ ~Holds(prev.permissions, Triple(args))
        /\ DOMAIN args = {"privilege", "securable_type", "securable_name",
                          "principal"}) =>
          /\ IsSuccess(response)
          /\ state.permissions =
                Append(prev.permissions,
                       [principal |-> args.principal,
                        privilege |-> args.privilege,
                        securable_type |-> args.securable_type,
                        securable_name |-> args.securable_name])

\* A held tuple was granted again under another securable_type and refused.
C8_Witness ==
    /\ tool = "grant_privilege"
    /\ IsError(response)
    /\ \E i \in 1..Len(prev.permissions) :
          /\ Triple(prev.permissions[i]) = Triple(args)
          /\ prev.permissions[i].securable_type # Get(args, "securable_type")

\* C9: revoke_privilege removes every permission matching the tuple and
\* keeps the others in order; with no match it answers an error and changes
\* nothing; granting a tuple not held and then revoking it restores the list.
C9_RevokeRemovesMatches ==
    /\ (tool = "revoke_privilege" /\ Holds(prev.permissions, Triple(args))) =>
          /\ IsSuccess(response)
          /\ state.permissions =
                SelectSeq(prev.permissions,
                          LAMBDA p : Triple(p) # Triple(args))
    /\ (tool = "revoke_privilege" /\ ~Holds(prev.permissions, Triple(args))) =>
          IsError(response) /\ state.permissions = prev.permissions
    /\ \A g \in Grants :
          ~Holds(state.permissions, Triple(g)) =>
              LET granted == grant_privilege(state, g)
                  revoked == revoke_privilege(granted[1],
                                              Without(g, "securable_type"))
              IN  /\ IsSuccess(granted[2])
                  /\ IsSuccess(revoked[2])
                  /\ revoked[1].permissions = state.permissions

\* One of two permissions was revoked and the other one stayed.
C9_Witness ==
    /\ tool = "revoke_privilege"
    /\ IsSuccess(response)
    /\ Len(prev.permissions) = 2
    /\ Len(state.permissions) = 1
    /\ state.permissions[1] \in {prev.permissions[1], prev.permissions[2]}

\* C10: use_catalog succeeds only for a key of catalogs; on success
\* active_catalog is that name and nothing else changes; on failure
\* active_catalog keeps its value.
C10_UseCatalog ==
    tool = "use_catalog" =>
        /\ IsSuccess(response) \/ IsError(response)
        /\ IsSuccess(response) <=> Get(args, "catalog_name") \in DOMAIN prev.catalogs
        /\ IsSuccess(response) =>
              /\ state.active_catalog = args.catalog_name
              /\ SameExcept({"active_catalog"})
        /\ IsError(response) => state.active_catalog = prev.active_catalog

\* use_catalog of an absent catalog failed while another catalog was active.
C10_Witness ==
    /\ tool = "use_catalog"
    /\ IsError(response)
    /\ "catalog_name" \in DOMAIN args
    /\ prev.active_catalog # None
    /\ state.active_catalog = prev.active_catalog

\* The tools that only read the workspace.
ReadOnlyTools ==
    {"list_catalogs", "list_schemas", "list_tables", "list_notebooks",
     "list_clusters", "list_jobs", "query_table"}

\* C11: a read-only tool leaves the state as it was, the same call made
\* again on the state it returned gives an equal response, and query_table
\* answers the table's full row list and its length whatever the query.
C11_ReadOnlyToolsAreIdempotent ==
    tool \in ReadOnlyTools =>
        LET again == TOOL_REGISTRY(tool, state, args, None)
        IN  /\ state = prev
            /\ again[2] = response
            /\ again[1] = state
            /\ (tool = "query_table" /\ ArgTableKey \in DOMAIN prev.tables) =>
                  /\ response.results = prev.tables[ArgTableKey].data
                  /\ response.row_count = Len(prev.tables[ArgTableKey].data)

\* A query with a filter argument was answered from a table that has rows.
C11_Witness ==
    /\ tool = "query_table"
    /\ "query" \in DOMAIN args
    /\ "results" \in DOMAIN response
    /\ response.row_count >= 1
    /\ state = prev

-----------------------------------------------------------------------------
(* core/evaluation.py                                                      *)

EvaluationResult(success, score, milestones, minefields, differences) ==
    [success |-> success, score |-> score,
     milestones_achieved |-> milestones,
     minefields_triggered |-> minefields,
     differences |-> differences]

\* A mapping from the column names to the column types alone.
RECURSIVE columns_by_name_to_type(_, _)
columns_by_name_to_type(columns, i) ==
    IF i = 0 THEN <<>>
    ELSE DictPut(columns_by_name_to_type(columns, i - 1), columns[i].name,
                 [type |-> columns[i].type])

\* {col.name: col for col in columns}: a later column replaces an earlier
\* one of the same name.
RECURSIVE columns_by_name(_, _)
columns_by_name(columns, i) ==
    IF i = 0 THEN <<>>
    ELSE DictPut(columns_by_name(columns, i - 1), columns[i].name, columns[i])

\* {name: col.type for name, col in columns.items()}
column_types(columns) == [name \in DOMAIN columns |-> columns[name].type]

\* Permission tuples that do not tell the privileges apart.
permission_tuples_without_privilege(permissions) ==
    {<<permissions[i].principal, "*", permissions[i].securable_name>> :
        i \in 1..Len(permissions)}

\* {(p.principal, p.privilege, p.securable_name) for p in permissions}
permission_tuples(permissions) ==
    {<<permissions[i].principal, permissions[i].privilege,
       permissions[i].securable_name>> : i \in 1..Len(permissions)}

\* A success that does not look at the missing notebooks.
success_ignoring_notebooks(differences) ==
    LET has_missing_resources ==
            \/ differences.missing_catalogs # {}
            \/ differences.missing_schemas # {}
            \/ differences.missing_tables # {}
        has_incorrect_tables == differences.incorrect_tables # {}
        has_missing_permissions == differences.missing_permissions # {}
    IN  ~(has_missing_resources \/ has_incorrect_tables
          \/ has_missing_permissions)

\* "Calculate success"
success(differences) ==
    LET has_missing_resources ==
            \/ differences.missing_catalogs # {}
            \/ differences.missing_schemas # {}
            \/ differences.missing_tables # {}
            \/ differences.missing_notebooks # {}
        has_incorrect_tables == differences.incorrect_tables # {}
        has_missing_permissions == differences.missing_permissions # {}
    IN  ~(has_missing_resources \/ has_incorrect_tables
          \/ has_missing_permissions)

\* "Calculate score": the quotient passed_checks / total_checks as the
\* fraction num/den, 1.0 being 1/1.
score(passed_checks, total_checks) ==
    IF total_checks > 0 THEN [num |-> passed_checks, den |-> total_checks]
    ELSE [num |-> 1, den |-> 1]

\* A row check that wants the goal's rows themselves in the final table.
insufficient_rows_by_content(final_table, goal_table) ==
    \E i \in 1..Len(goal_table.data) :
        \A j \in 1..Len(final_table.data) :
            final_table.data[j] # goal_table.data[i]

\* len(final_table.data) < len(goal_table.data)
insufficient_rows(final_table, goal_table) ==
    Len(final_table.data) < Len(goal_table.data)

\* evaluate_task(final_state, goal_state).  The lists of the result are
\* built by iterating over dicts and sets; no two of their elements are
\* equal, and they are modelled as sets, their length being the cardinality.
evaluate_task(final, goal) ==
    LET missing_catalogs == DOMAIN goal.catalogs \ DOMAIN final.catalogs
        missing_schemas == DOMAIN goal.schemas \ DOMAIN final.schemas
        missing_tables == DOMAIN goal.tables \ DOMAIN final.tables
        missing_notebooks == DOMAIN goal.notebooks \ DOMAIN final.notebooks
        found_tables == DOMAIN goal.tables \cap DOMAIN final.tables
        goal_columns(k) ==
            columns_by_name(goal.tables[k].columns,
                            Len(goal.tables[k].columns))
        final_columns(k) ==
            columns_by_name(final.tables[k].columns,
                            Len(final.tables[k].columns))
        mismatched == {k \in found_tables : goal_columns(k) # final_columns(k)}
        with_data == {k \in found_tables : goal.tables[k].data # <<>>}
        insufficient ==
            {k \in with_data :
                insufficient_rows(final.tables[k], goal.tables[k])}
        incorrect_tables ==
            {[table |-> k, issue |-> "Column schema mismatch",
              expected |-> column_types(goal_columns(k)),
              actual |-> column_types(final_columns(k))] : k \in mismatched}
            \cup
            {[table |-> k, issue |-> "Insufficient data rows",
              expected_rows |-> Len(goal.tables[k].data),
              actual_rows |-> Len(final.tables[k].data)] : k \in insufficient}
        goal_permissions == permission_tuples(goal.permissions)
        final_permissions == permission_tuples(final.permissions)
        missing_perms == goal_permissions \ final_permissions
        missing_permissions ==
            {t[1] \o " - " \o t[2] \o " on " \o t[3] : t \in missing_perms}
        extra_catalogs == DOMAIN final.catalogs \ DOMAIN goal.catalogs
        extra_tables == DOMAIN final.tables \ DOMAIN goal.tables
        extra_resources ==
            IF extra_catalogs # {} \/ extra_tables # {}
            THEN [catalogs |-> extra_catalogs, tables |-> extra_tables]
            ELSE <<>>
        differences ==
            [missing_catalogs |-> missing_catalogs,
             missing_schemas |-> missing_schemas,
             missing_tables |-> missing_tables,
             missing_notebooks |-> missing_notebooks,
             missing_permissions |-> missing_permissions,
             incorrect_tables |-> incorrect_tables,
             extra_resources |-> extra_resources]
        milestones_achieved ==
            {"Catalog '" \o k \o "' exists" :
                k \in DOMAIN goal.catalogs \cap DOMAIN final.catalogs}
            \cup {"Schema '" \o k \o "' exists" :
                    k \in DOMAIN goal.schemas \cap DOMAIN final.schemas}
            \cup {"Table '" \o k \o "' created with correct schema" :
                    k \in found_tables \ mismatched}
            \cup {"Table '" \o k \o "' has data inserted" :
                    k \in with_data \ insufficient}
            \cup {"Notebook '" \o k \o "' created" :
                    k \in DOMAIN goal.notebooks \cap DOMAIN final.notebooks}
            \cup (IF missing_perms # {} THEN {}
                  ELSE {"All required permissions granted"})
        total_checks ==
            Cardinality(DOMAIN goal.catalogs) + Cardinality(DOMAIN goal.schemas)
            + Cardinality(DOMAIN goal.tables)
            + Cardinality(DOMAIN goal.notebooks) + Len(goal.permissions)
        passed_checks == Cardinality(milestones_achieved)
        extra_perms == final_permissions \ goal_permissions
        minefields_triggered ==
            IF extra_perms # {}
            THEN {<<"Unexpected permissions granted: ", extra_perms>>}
            ELSE {}
    IN  EvaluationResult(success(differences),
                         score(passed_checks, total_checks),
                         milestones_achieved, minefields_triggered,
                         differences)

-----------------------------------------------------------------------------
(* The caller of evaluate_task                                             *)

\* The catalogs, schemas, tables, notebooks and permissions of the
\* workspaces evaluated.
EvalCatalogs ==
    {[k \in S |-> Catalog(k, "admin", None)] : S \in SUBSET {"a", "b"}}

EvalSchemas ==
    {[k \in S |-> Schema("a", "s", "admin", None)] : S \in SUBSET {"a.s"}}

\* Table a.s.t with an id column of either type, empty or holding one row.
EvalTables ==
    {<<>>}
    \cup {DictPut(<<>>, "a.s.t",
                  [Table("a", "s", "t", <<Column("id", type, TRUE, None)>>,
                         "admin") EXCEPT !.data = data]) :
            type \in {"INT", "STRING"}, data \in {<<>>, <<<<<<"id", 1>>>>>>}}

EvalNotebooks == {[k \in S |-> Notebook(k, "python")] : S \in SUBSET {"/n"}}

p_select == Permission("bob", "SELECT", "TABLE", "a.s.t")

p_modify == Permission("bob", "MODIFY", "TABLE", "a.s.t")

EvalPermissions == {<<>>, <<p_select>>, <<p_modify>>, <<p_select, p_select>>}

id_int == Column("id", "INT", TRUE, None)

id_string == Column("id", "STRING", TRUE, None)

id_required == Column("id", "INT", FALSE, None)

id_commented == Column("id", "INT", TRUE, "key")

key_int == Column("key", "INT", TRUE, None)

name_string == Column("name", "STRING", TRUE, None)

\* Column lists of table a.s.t: one column in its variants, two columns in
\* both orders, and a repeated column name in both orders.
EvalColumnLists ==
    {<<id_int>>, <<id_string>>, <<id_required>>, <<id_commented>>,
     <<key_int>>, <<id_int, name_string>>, <<name_string, id_int>>,
     <<id_int, id_string>>, <<id_string, id_int>>}

\* Row lists of table a.s.t: rows of other content and two rows.
EvalRowLists == {<<<<<<"id", 2>>>>>>, <<<<<<"id", 1>>>>, <<<<"id", 2>>>>>>}

\* Workspaces that hold table a.s.t alone.
EvalTableStates ==
    {[DatabricksState EXCEPT !.tables =
        DictPut(<<>>, "a.s.t", Table("a", "s", "t", columns, "admin"))] :
        columns \in EvalColumnLists}
    \cup
    {[DatabricksState EXCEPT !.tables =
        DictPut(<<>>, "a.s.t",
                [Table("a", "s", "t", <<id_int>>, "admin")
                    EXCEPT !.data = data])] : data \in EvalRowLists}

\* Workspaces that hold one cluster or one job alone.
EvalComputeStates ==
    {[DatabricksState EXCEPT !.clusters =
        DictPut(<<>>, "u1", Cluster("u1", "etl", "i3.xlarge", 1,
                                    "13.3.x-scala2.12"))],
     [DatabricksState EXCEPT !.jobs =
        DictPut(<<>>, "u2", Job("u2", "nightly", None, <<>>))]}

\* The workspaces handed to evaluate_task.
EvalStates ==
    {[DatabricksState EXCEPT !.catalogs = c, !.schemas = sc, !.tables = t,
                             !.notebooks = n, !.permissions = p] :
        c \in EvalCatalogs, sc \in EvalSchemas, t \in EvalTables,
        n \in EvalNotebooks, p \in EvalPermissions}
    \cup EvalTableStates \cup EvalComputeStates

EvalInit ==
    /\ NoCall
    /\ NoEnvironment
    /\ final_state \in EvalStates
    /\ goal_state \in EvalStates
    /\ result = <<>>

\* An evaluation that fails a final state holding resources the goal does
\* not name.
EvaluatePenalizingExtras ==
    /\ result = <<>>
    /\ result' =
          [evaluate_task(final_state, goal_state) EXCEPT
              !.success = @ /\ DOMAIN final_state.catalogs
                                  \subseteq DOMAIN goal_state.catalogs]
    /\ UNCHANGED <<toolVars, envVars, final_state, goal_state>>

Evaluate ==
    /\ result = <<>>
    /\ result' = evaluate_task(final_state, goal_state)
    /\ UNCHANGED <<toolVars, envVars, final_state, goal_state>>

EvalNext == Evaluate

EvalSpec == EvalInit /\ [][EvalNext]_vars

-----------------------------------------------------------------------------
(* domains/databricks/policy.py                                            *)
(* A name is the sequence of its characters.                               *)

MAX_CATALOG_NAME_LENGTH == 255

MAX_SCHEMA_NAME_LENGTH == 255

MAX_TABLE_NAME_LENGTH == 255

MAX_CLUSTERS_PER_WORKSPACE == 100

\* The character class [a-zA-Z0-9_]
WordCharacters ==
    {"a", "b", "c", "d", "e", "f", "g", "h", "i", "j", "k", "l", "m",
     "n", "o", "p", "q", "r", "s", "t", "u", "v", "w", "x", "y", "z",
     "A", "B", "C", "D", "E", "F", "G", "H", "I", "J", "K", "L", "M",
     "N", "O", "P", "Q", "R", "S", "T", "U", "V", "W", "X", "Y", "Z",
     "0", "1", "2", "3", "4", "5", "6", "7", "8", "9", "_"}

\* re.match(r"^[a-zA-Z0-9_]+$", name): one or more characters of the class
\* from the start up to a place where $ matches, which is the end of the
\* name or the place before a line break that ends the name.
re_match(name) ==
    \E m \in 1..Len(name) :
        /\ \A i \in 1..m : name[i] \in WordCharacters
        /\ \/ m = Len(name)
           \/ m = Len(name) - 1 /\ name[Len(name)] = "\n"

validate_catalog_name(name) ==
    IF name = <<>>
    THEN <<FALSE, "Catalog name cannot be empty">>
    ELSE IF Len(name) > MAX_CATALOG_NAME_LENGTH
    THEN <<FALSE, "Catalog name exceeds maximum length of "
                  \o ToString(MAX_CATALOG_NAME_LENGTH)>>
    ELSE IF ~re_match(name)
    THEN <<FALSE, "Catalog name must contain only alphanumeric characters and underscores">>
    ELSE <<TRUE, "">>

validate_schema_name(name) ==
    IF name = <<>>
    THEN <<FALSE, "Schema name cannot be empty">>
    ELSE IF Len(name) > MAX_SCHEMA_NAME_LENGTH
    THEN <<FALSE, "Schema name exceeds maximum length of "
                  \o ToString(MAX_SCHEMA_NAME_LENGTH)>>
    ELSE IF ~re_match(name)
    THEN <<FALSE, "Schema name must contain only alphanumeric characters and underscores">>
    ELSE <<TRUE, "">>

validate_table_name(name) ==
    IF name = <<>>
    THEN <<FALSE, "Table name cannot be empty">>
    ELSE IF Len(name) > MAX_TABLE_NAME_LENGTH
    THEN <<FALSE, "Table name exceeds maximum length of "
                  \o ToString(MAX_TABLE_NAME_LENGTH)>>
    ELSE IF ~re_match(name)
    THEN <<FALSE, "Table name must contain only alphanumeric characters and underscores">>
    ELSE <<TRUE, "">>

validate_cluster_count(s) ==
    IF Cardinality(DOMAIN s.clusters) >= MAX_CLUSTERS_PER_WORKSPACE
    THEN <<FALSE, "Maximum number of clusters ("
                  \o ToString(MAX_CLUSTERS_PER_WORKSPACE) \o ") exceeded">>
    ELSE <<TRUE, "">>

\* validate_action(state, action): action maps "type" and "args".
validate_action(s, action) ==
    LET action_type == Get(action, "type")
        a == GetDefault(action, "args", <<>>)
        given(k) == k \in DOMAIN a /\ a[k] # <<>>
    IN  IF action_type = "create_catalog"
        THEN IF given("catalog_name")
                /\ ~validate_catalog_name(a.catalog_name)[1]
             THEN <<FALSE, validate_catalog_name(a.catalog_name)[2]>>
             ELSE <<TRUE, "">>
        ELSE IF action_type = "create_schema"
        THEN IF given("schema_name")
                /\ ~validate_schema_name(a.schema_name)[1]
             THEN <<FALSE, validate_schema_name(a.schema_name)[2]>>
             ELSE <<TRUE, "">>
        ELSE IF action_type = "create_table"
        THEN IF given("table_name")
                /\ ~validate_table_name(a.table_name)[1]
             THEN <<FALSE, validate_table_name(a.table_name)[2]>>
             ELSE <<TRUE, "">>
        ELSE IF action_type = "create_cluster"
        THEN IF ~validate_cluster_count(s)[1]
             THEN <<FALSE, validate_cluster_count(s)[2]>>
             ELSE <<TRUE, "">>
        ELSE <<TRUE, "">>

-----------------------------------------------------------------------------
(* The caller of Policy and of create_cluster                              *)

\* Most clusters the caller creates beyond the ceiling.
MaxOverCeiling == 2

\* The name of n letters a.
Letters(n) == [i \in 1..n |-> "a"]

\* Names handed to the validators: empty, well-formed, with a character
\* outside the class in front, inside and at the end, with a line break at
\* the end, and of the greatest length, one more, and one more by a line
\* break.
PolicyNames ==
    {<<>>, <<"a">>, <<"T", "_", "1">>, <<"a", "-", "b">>, <<"a", " ">>,
     <<".", "a">>, <<"a", "\n">>, <<"\n">>, <<"a", "\n", "b">>,
     <<"a", "\n", "\n">>,
     Letters(MAX_CATALOG_NAME_LENGTH), Letters(MAX_CATALOG_NAME_LENGTH + 1),
     Append(Letters(MAX_CATALOG_NAME_LENGTH - 1), "\n"),
     Append(Letters(MAX_CATALOG_NAME_LENGTH), "\n")}

\* A call of t with args a that leaves the workspace s and returns r.
PolicyCall(t, a, s, r) ==
    /\ tool = "none"
    /\ prev' = state
    /\ state' = s
    /\ tool' = t
    /\ args' = a
    /\ response' = r
    /\ UNCHANGED <<envVars, evalVars>>

PolicyInit == Init

ValidateCatalogName ==
    \E name \in PolicyNames :
        PolicyCall("validate_catalog_name", [name |-> name], state,
                   validate_catalog_name(name))

ValidateSchemaName ==
    \E name \in PolicyNames :
        PolicyCall("validate_schema_name", [name |-> name], state,
                   validate_schema_name(name))

ValidateTableName ==
    \E name \in PolicyNames :
        PolicyCall("validate_table_name", [name |-> name], state,
                   validate_table_name(name))

\* Actions handed to validate_action: the three creations with their name
\* argument well-formed, ill-formed, empty and missing, a creation without
\* args, a cluster creation, an unknown type and no type.
PolicyActions ==
    {[type |-> t[1], args |-> Opt(t[2], name)] :
        t \in {<<"create_catalog", "catalog_name">>,
               <<"create_schema", "schema_name">>,
               <<"create_table", "table_name">>},
        name \in {None, <<>>, <<"a">>, <<"a", "-", "b">>}}
    \cup {[type |-> "create_catalog"],
          [type |-> "create_cluster", args |-> <<>>],
          [type |-> "drop_table", args |-> [table_name |-> <<"-">>]],
          [args |-> [catalog_name |-> <<"-">>]]}

ValidateAction ==
    \E action \in PolicyActions :
        PolicyCall("validate_action", action, state,
                   validate_action(state, action))

ValidateClusterCount ==
    PolicyCall("validate_cluster_count", <<>>, state,
               validate_cluster_count(state))

\* uuid.uuid4() returns an identifier no cluster has yet: the clusters are
\* c1, c2, ... in the order of their creation.
PolicyCreateCluster ==
    \E n \in ClusterNames :
        LET a == Opt("name", n)
            uuid4 == "c" \o ToString(Cardinality(DOMAIN state.clusters) + 1)
            res == create_cluster(state, a, uuid4)
        IN  /\ Cardinality(DOMAIN state.clusters)
                  < MAX_CLUSTERS_PER_WORKSPACE + MaxOverCeiling
            /\ PolicyCall("create_cluster", a, res[1], res[2])

PolicyNext ==
    \/ Continue
    \/ ValidateCatalogName
    \/ ValidateSchemaName
    \/ ValidateTableName
    \/ ValidateClusterCount
    \/ ValidateAction
    \/ PolicyCreateCluster

PolicySpec == PolicyInit /\ [][PolicyNext]_vars

-----------------------------------------------------------------------------
(* web/state_computer.py                                                   *)

\* A value of a mapping that is not itself a mapping.
Leaf(v) == [leaf |-> v]

\* isinstance(value, dict)
isinstance_dict(value) == "leaf" \notin DOMAIN value

\* copy.deepcopy: an equal value that shares nothing with x. The values of
\* the model are immutable, so that an argument is after a call what it was
\* before it.
deepcopy(x) == x

\* deep_merge that replaces a nested mapping instead of merging into it.
deep_merge_shallow(base, update) ==
    [key \in DOMAIN base \cup DOMAIN update |->
        IF key \in DOMAIN update THEN update[key] ELSE base[key]]

RECURSIVE deep_merge(_, _)
deep_merge(base, update) ==
    LET result_ == deepcopy(base)
    IN  [key \in DOMAIN result_ \cup DOMAIN update |->
            IF key \notin DOMAIN update THEN result_[key]
            ELSE IF /\ key \in DOMAIN result_
                    /\ isinstance_dict(result_[key])
                    /\ isinstance_dict(update[key])
                 THEN deep_merge(result_[key], update[key])
                 ELSE deepcopy(update[key])]

\* The for loop of compute_state_at_step over workflow.steps[i..], current
\* being the state merged so far.
RECURSIVE apply_steps(_, _, _, _)
apply_steps(steps, i, step_index, current) ==
    IF i > Len(steps) THEN current
    ELSE apply_steps(steps, i + 1, step_index,
            IF steps[i].step_id <= step_index
               /\ steps[i].expected_state_change # <<>>
            THEN deep_merge(current, steps[i].expected_state_change)
            ELSE current)

compute_state_at_step(workflow, step_index) ==
    IF step_index = -1
    THEN IF workflow.goal_state # <<>>
         THEN deepcopy(workflow.goal_state) ELSE <<>>
    ELSE IF step_index = 0
    THEN IF workflow.initial_state # <<>>
         THEN deepcopy(workflow.initial_state) ELSE <<>>
    ELSE apply_steps(workflow.steps, 1, step_index,
            IF workflow.initial_state # <<>>
            THEN deepcopy(workflow.initial_state) ELSE <<>>)

-----------------------------------------------------------------------------
(* The caller of compute_state_at_step                                     *)

InitialStates ==
    {<<>>,
     [catalogs |-> [a |-> [owner |-> Leaf("x"), comment |-> Leaf("x")]],
      active_catalog |-> Leaf("b")]}

GoalStates == {<<>>, [active_catalog |-> Leaf("a")]}

\* Values of expected_state_change: nothing, a nested key added, a nested
\* key overridden and a sibling added, a mapping replaced by a scalar, a
\* scalar overridden.
StateChanges ==
    {<<>>,
     [catalogs |-> [a |-> [comment |-> Leaf("y")]]],
     [catalogs |-> [a |-> [owner |-> Leaf("y")], b |-> [owner |-> Leaf("x")]]],
     [catalogs |-> Leaf("none")],
     [active_catalog |-> Leaf("a")]}

\* The step_id lists of the workflows: in order, out of order, repeated.
StepIds == {<<>>, <<1>>, <<1, 2>>, <<2, 1>>, <<1, 1>>}

Workflows ==
    {[initial_state |-> i, goal_state |-> g,
      steps |-> [n \in 1..Len(ids) |->
                    [step_id |-> ids[n], expected_state_change |-> c[n]]]] :
        i \in InitialStates, g \in GoalStates,
        ids \in StepIds, c \in [1..2 -> StateChanges]}

StepIndexes == {-1, 0, 1, 2}

ComputeStateAtStep ==
    \E workflow \in Workflows, step_index \in StepIndexes :
        PolicyCall("compute_state_at_step",
                   [workflow |-> workflow, step_index |-> step_index], state,
                   compute_state_at_step(workflow, step_index))

ComputerNext ==
    \/ ComputeStateAtStep
    \/ Continue

ComputerSpec == Init /\ [][ComputerNext]_vars

-----------------------------------------------------------------------------
(* Properties of the Environment                                           *)

\* The Environment instance the operation in progress is made on, before it.
Self == envs[op'.self]

\* What the registered tool of the operation in progress gives on the
\* instance's current state when uuid.uuid4() returns uuid4.
ToolResult(uuid4) ==
    TOOL_REGISTRY(op'.tool_name, Self.state, op'.args, uuid4)

\* C12: execute_tool with a name that is not registered returns an error
\* and leaves the state, the snapshot history and the conversation log of
\* every instance as they were.
C12_UnknownToolTouchesNothing ==
    [][(op'.name = "execute_tool" /\ op'.tool_name \notin ToolNames) =>
          /\ op'.response = Error("Unknown tool: " \o op'.tool_name)
          /\ envs' = envs]_vars

\* An unregistered tool was called on an instance that has a log.
C12_Witness ==
    /\ op.name = "execute_tool"
    /\ op.tool_name = "drop_catalog"
    /\ IsError(op.response)
    /\ envs[op.self].conversation_history # <<>>
    /\ Len(envs[op.self].state_snapshots) > 1

\* C13: execute_tool with a registered name always returns a response
\* mapping; when the tool function raised, the response is the error
\* "Tool execution failed: " followed by the exception's text.
C13_NoFailureEscapes ==
    [][(op'.name = "execute_tool" /\ op'.tool_name \in ToolNames) =>
          /\ ~IsRaise(op'.response)
          /\ \A uuid4 \in UuidsFor(op'.tool_name) :
                IsRaise(ToolResult(uuid4)[2]) =>
                    op'.response =
                        Error("Tool execution failed: "
                              \o ToolResult(uuid4)[2].raised)]_vars

\* create_table was given a column without a name where the schema exists,
\* and the caller got the error response.
C13_Witness ==
    /\ op.name = "execute_tool"
    /\ op.tool_name = "create_table"
    /\ "a.s" \in DOMAIN envs[op.self].state.schemas
    /\ op.response = Error("Tool execution failed: ValidationError")

\* C14: every execute_tool call with a registered name replaces the state
\* by the state the call results in, appends that state to the snapshot
\* history and appends exactly one tool_call entry to the conversation log.
C14_EveryCallIsRecorded ==
    [][(op'.name = "execute_tool" /\ op'.tool_name \in ToolNames) =>
          \E uuid4 \in UuidsFor(op'.tool_name) :
              /\ envs'[op'.self].state = ToolResult(uuid4)[1]
              /\ envs'[op'.self].state_snapshots =
                     Append(Self.state_snapshots, ToolResult(uuid4)[1])
              /\ envs'[op'.self].conversation_history =
                     Append(Self.conversation_history,
                            tool_call(op'.tool_name, op'.args,
                                      op'.response))]_vars

\* C15: between resets the snapshot history and the conversation log only
\* grow at the end: after execute_tool, add_user_message and
\* add_agent_message the earlier lists are prefixes of the new ones.
C15_AppendOnly ==
    [][op'.name \in {"execute_tool", "add_user_message", "add_agent_message"}
          => \A i \in Instances :
                /\ IsPrefix(envs[i].state_snapshots, envs'[i].state_snapshots)
                /\ IsPrefix(envs[i].conversation_history,
                            envs'[i].conversation_history)]_vars

\* A message was added to a log that already held a tool call.
C15_Witness ==
    /\ op.name = "add_user_message"
    /\ Len(envs[op.self].conversation_history) = 2
    /\ envs[op.self].conversation_history[1].type = "tool_call"
    /\ envs[op.self].conversation_history[2].type = "user_message"

\* C16: reset leaves the instance as a newly constructed Environment with
\* the same initial state is: the state is the supplied state or the empty
\* one, the log is empty and the snapshot history holds that state alone;
\* so tool calls made after it give what they give on a new instance.
C16_ResetIsConstruction ==
    [][op'.name = "reset" =>
          /\ envs'[op'.self] = Environment(op'.args)
          /\ envs'[op'.self].conversation_history = <<>>
          /\ envs'[op'.self].state_snapshots = <<envs'[op'.self].state>>]_vars

\* An instance was reset to the populated workspace while the other one
\* holds a log.
C16_Witness ==
    /\ op.name = "reset"
    /\ "initial_state" \in DOMAIN op.args
    /\ envs[op.self] = Environment(op.args)
    /\ \E i \in Instances \ {op.self} :
          envs[i].conversation_history # <<>>

\* C17: an operation on one instance leaves the state, the snapshot history
\* and the conversation log of every other instance as they were.
C17_InstancesAreIndependent ==
    [][\A i \in Instances : i # op'.self => envs'[i] = envs[i]]_vars

\* Two instances constructed from the same initial state differ after a
\* message was added to one of them.
C17_Witness ==
    /\ op.name = "add_agent_message"
    /\ \A i \in Instances : envs[i].state_snapshots[1] = Populated
    /\ \E i \in Instances \ {op.self} : envs[i].conversation_history = <<>>
    /\ envs[op.self].conversation_history # <<>>

\* C38: when the tool function raises inside execute_tool, the state, the
\* snapshot history and the conversation log of every instance are after
\* the call what they were before it; the call shows in the response alone.
C38_FailedCallIsNotRecorded ==
    [][(/\ op'.name = "execute_tool"
        /\ op'.tool_name \in ToolNames
        /\ \E uuid4 \in UuidsFor(op'.tool_name) :
               IsRaise(ToolResult(uuid4)[2])) =>
          /\ envs' = envs
          /\ IsError(op'.response)]_vars

\* create_cluster raised on a num_workers that is no integer, on an instance
\* that has a log.
C38_Witness ==
    /\ op.name = "execute_tool"
    /\ op.tool_name = "create_cluster"
    /\ op.args.num_workers = "many"
    /\ IsError(op.response)
    /\ envs[op.self].conversation_history # <<>>
    /\ Len(envs[op.self].state_snapshots) > 1

\* The number of tool_call entries of a conversation log.
ToolCalls(log) ==
    Cardinality({n \in 1..Len(log) : log[n].type = "tool_call"})

\* The snapshot history of every instance is not empty, ends with the
\* state get_state returns and has one snapshot more than the log has
\* tool_call entries; a newly constructed instance has the snapshot of its
\* state alone.
SnapshotsFollowTheLog ==
    \A i \in Instances :
        LET snapshots == get_state_snapshots(envs[i])
        IN  /\ snapshots # <<>>
            /\ snapshots[Len(snapshots)] = get_state(envs[i])
            /\ Len(snapshots)
                   = 1 + ToolCalls(get_conversation_history(envs[i]))
            /\ op.name = "__init__" => snapshots = <<get_state(envs[i])>>

\* A reset makes the state it is given (the empty state when it is given
\* none) the first snapshot of its instance, and no other operation changes
\* the first snapshot of an instance.
FirstSnapshotIsInitialState ==
    \A i \in Instances :
        envs'[i].state_snapshots[1] =
            IF op'.name = "reset" /\ op'.self = i
            THEN IF "initial_state" \in DOMAIN op'.args
                 THEN op'.args.initial_state ELSE DatabricksState
            ELSE envs[i].state_snapshots[1]

\* A call of a registered tool that ends in an error the tool returned adds
\* a snapshot equal to the previous one.
ErrorRepeatsSnapshot ==
    (/\ op'.name = "execute_tool"
     /\ op'.tool_name \in ToolNames
     /\ IsError(op'.response)
     /\ \A uuid4 \in UuidsFor(op'.tool_name) :
            ~IsRaise(ToolResult(uuid4)[2]))
        => envs'[op'.self].state_snapshots =
               Append(Self.state_snapshots,
                      Self.state_snapshots[Len(Self.state_snapshots)])

\* C39: in every reachable Environment state the snapshot history is not
\* empty, its first element is the state given at construction or at the
\* last reset, its last element is what get_state returns and its length is
\* 1 + the number of tool_call entries in the log; a call that ends in a
\* validation error adds a snapshot equal to the previous one.
C39_SnapshotHistory ==
    /\ []SnapshotsFollowTheLog
    /\ [][FirstSnapshotIsInitialState /\ ErrorRepeatsSnapshot]_vars

\* The second call on an instance constructed with the populated workspace
\* ended in a validation error.
C39_Witness ==
    /\ op.name = "execute_tool"
    /\ op.tool_name \in ToolNames
    /\ IsError(op.response)
    /\ Len(envs[op.self].state_snapshots) = 3
    /\ envs[op.self].state_snapshots[1] = Populated
    /\ envs[op.self].state_snapshots[3] = envs[op.self].state_snapshots[2]
    /\ envs[op.self].state_snapshots[2] # Populated

-----------------------------------------------------------------------------
(* Properties of the evaluation                                            *)

Evaluated == result # <<>>

\* Every key of goal is a key of final.
HasKeys(final, goal) == DOMAIN goal \subseteq DOMAIN final

\* C18: success is true exactly when no goal catalog, schema, table or
\* notebook key is missing from the final state, incorrect_tables is empty
\* and every goal permission tuple is among the final state's.
C18_SuccessIsNothingMissing ==
    Evaluated =>
        (result.success <=>
            /\ HasKeys(final_state.catalogs, goal_state.catalogs)
            /\ HasKeys(final_state.schemas, goal_state.schemas)
            /\ HasKeys(final_state.tables, goal_state.tables)
            /\ HasKeys(final_state.notebooks, goal_state.notebooks)
            /\ result.differences.incorrect_tables = {}
            /\ \A i \in 1..Len(goal_state.permissions) :
                  Holds(final_state.permissions,
                        Triple(goal_state.permissions[i])))

\* Only a goal notebook is missing, and the evaluation failed.
C18_Witness ==
    /\ Evaluated
    /\ ~result.success
    /\ result.differences.missing_notebooks = {"/n"}
    /\ result.differences.missing_catalogs = {}
    /\ result.differences.missing_schemas = {}
    /\ result.differences.missing_tables = {}
    /\ result.differences.incorrect_tables = {}
    /\ result.differences.missing_permissions = {}

\* C19: a final state identical to the goal state is evaluated as
\* success == true with score == 1.0.
C19_IdenticalStatesScoreOne ==
    (Evaluated /\ final_state = goal_state) =>
        /\ result.success
        /\ result.score.num = result.score.den

\* C20: when a goal catalog is absent from the final state, success is
\* false, the score is below 1.0 and the catalog's name is in
\* differences.missing_catalogs.
C20_MissingCatalogFails ==
    Evaluated =>
        \A c \in DOMAIN goal_state.catalogs \ DOMAIN final_state.catalogs :
            /\ ~result.success
            /\ result.score.num < result.score.den
            /\ c \in result.differences.missing_catalogs

\* Number of goal entities: catalogs + schemas + tables + notebooks +
\* permissions.
GoalEntities(goal) ==
    Cardinality(DOMAIN goal.catalogs) + Cardinality(DOMAIN goal.schemas)
    + Cardinality(DOMAIN goal.tables) + Cardinality(DOMAIN goal.notebooks)
    + Len(goal.permissions)

\* C21: the score is the number of achieved milestones divided by the
\* number of goal entities, 1.0 when the goal has no entity, and lies
\* between 0.0 and 1.0: the milestones never outnumber the goal entities.
C21_ScoreIsWithinZeroAndOne ==
    Evaluated =>
        /\ result.score =
              IF GoalEntities(goal_state) > 0
              THEN [num |-> Cardinality(result.milestones_achieved),
                    den |-> GoalEntities(goal_state)]
              ELSE [num |-> 1, den |-> 1]
        /\ 0 <= result.score.num
        /\ result.score.num <= result.score.den
        /\ (GoalEntities(goal_state) > 0 =>
               Cardinality(result.milestones_achieved)
                   <= GoalEntities(goal_state))

\* The text that reports a missing permission tuple.
PermissionText(t) == t[1] \o " - " \o t[2] \o " on " \o t[3]

\* The final state with permission p granted on top.
OverGranted(p) == [final_state EXCEPT !.permissions = Append(@, p)]

\* C22: permissions are compared as sets of (principal, privilege,
\* securable_name): a goal tuple absent from the final state is reported in
\* missing_permissions and makes success false; minefields_triggered is
\* non-empty exactly when a final tuple is absent from the goal; granting
\* a permission the goal does not hold on top of the final state leaves
\* success as it is.
C22_PermissionsComparedAsSets ==
    Evaluated =>
        /\ \A i \in 1..Len(goal_state.permissions) :
              ~Holds(final_state.permissions, Triple(goal_state.permissions[i]))
              => /\ PermissionText(Triple(goal_state.permissions[i]))
                        \in result.differences.missing_permissions
                 /\ ~result.success
        /\ result.minefields_triggered # {}
              <=> \E i \in 1..Len(final_state.permissions) :
                     ~Holds(goal_state.permissions,
                            Triple(final_state.permissions[i]))
        /\ \A p \in {p_select, p_modify} :
              ~Holds(goal_state.permissions, Triple(p))
              => evaluate_task(OverGranted(p), goal_state).success
                     = result.success

\* The goal asks for SELECT, the final state grants MODIFY instead: one
\* tuple is missing and one is over-granted.
C22_Witness ==
    /\ Evaluated
    /\ goal_state.permissions = <<p_select>>
    /\ final_state.permissions = <<p_modify>>
    /\ result.minefields_triggered # {}
    /\ result.differences.missing_permissions = {"bob - SELECT on a.s.t"}
    /\ ~result.success

\* The tables of the goal state that the final state holds too.
FoundTables == DOMAIN goal_state.tables \cap DOMAIN final_state.tables

GoalColumns(k) == goal_state.tables[k].columns

FinalColumns(k) == final_state.tables[k].columns

NameSet(columns) == {columns[i].name : i \in 1..Len(columns)}

\* The column a name stands for: the last one of that name in the list.
LastNamed(columns, name) ==
    columns[CHOOSE i \in 1..Len(columns) :
                /\ columns[i].name = name
                /\ \A j \in (i + 1)..Len(columns) : columns[j].name # name]

SameColumnMapping(c1, c2) ==
    /\ NameSet(c1) = NameSet(c2)
    /\ \A name \in NameSet(c1) : LastNamed(c1, name) = LastNamed(c2, name)

\* c2 lists the columns of c1 in some order.
IsReordering(c1, c2) ==
    /\ Len(c1) = Len(c2)
    /\ \E f \in Permutations(1..Len(c1)) :
          c2 = [i \in 1..Len(c1) |-> c1[f[i]]]

DistinctNames(columns) == Cardinality(NameSet(columns)) = Len(columns)

\* incorrect_tables has a column-schema entry for table k.
MismatchEntry(k) ==
    \E e \in result.differences.incorrect_tables :
        e.table = k /\ e.issue = "Column schema mismatch"

\* C23 as stated: for a goal table found in the final state there is a
\* column-schema entry exactly when the columns differ as a name-to-Column
\* mapping; a reordering of the columns never creates one, a difference in
\* any column or in the set of names always does.
C23_ColumnsComparedAsStated ==
    Evaluated =>
        \A k \in FoundTables :
            /\ MismatchEntry(k)
                  <=> ~SameColumnMapping(GoalColumns(k), FinalColumns(k))
            /\ MismatchEntry(k) => ~result.success
            /\ IsReordering(GoalColumns(k), FinalColumns(k))
                  => ~MismatchEntry(k)
            /\ {GoalColumns(k)[i] : i \in 1..Len(GoalColumns(k))}
                  # {FinalColumns(k)[i] : i \in 1..Len(FinalColumns(k))}
                  => MismatchEntry(k)

\* C23 amended: there is a column-schema entry (and success is false)
\* exactly when the columns differ as a name-to-Column mapping in which the
\* last column of a name stands for it; a reordering of columns of distinct
\* names never creates one; a difference in the set of names, or in the
\* type, nullable or comment of the column a name stands for, always does.
C23_ColumnsComparedAsMapping ==
    Evaluated =>
        \A k \in FoundTables :
            /\ MismatchEntry(k)
                  <=> ~SameColumnMapping(GoalColumns(k), FinalColumns(k))
            /\ MismatchEntry(k) => ~result.success
            /\ (DistinctNames(GoalColumns(k))
                /\ IsReordering(GoalColumns(k), FinalColumns(k)))
                  => ~MismatchEntry(k)
            /\ NameSet(GoalColumns(k)) # NameSet(FinalColumns(k))
                  => MismatchEntry(k)
            /\ \A name \in NameSet(GoalColumns(k)) \cap NameSet(FinalColumns(k)) :
                  (\E f \in {"type", "nullable", "comment"} :
                      LastNamed(GoalColumns(k), name)[f]
                          # LastNamed(FinalColumns(k), name)[f])
                  => MismatchEntry(k)

\* The final table lists the goal table's two columns in the other order
\* and no entry was made.
C23_Witness ==
    /\ Evaluated
    /\ "a.s.t" \in FoundTables
    /\ GoalColumns("a.s.t") = <<id_int, name_string>>
    /\ FinalColumns("a.s.t") = <<name_string, id_int>>
    /\ result.differences.incorrect_tables = {}
    /\ result.success

\* The final state with one more catalog, with one more table.
WithCatalog(c) ==
    [final_state EXCEPT !.catalogs = DictPut(@, c, Catalog(c, "admin", None))]

WithTable(k) ==
    [final_state EXCEPT
        !.tables = DictPut(@, k, Table("x", "y", "z", <<id_int>>, "admin"))]

\* Result r differs from the last result in extra_resources at most.
SameButExtras(r) ==
    /\ r.success = result.success
    /\ r.score = result.score
    /\ r.milestones_achieved = result.milestones_achieved
    /\ \A f \in DOMAIN r.differences \ {"extra_resources"} :
          r.differences[f] = result.differences[f]

\* C24: a catalog or a table that the goal does not name, added to the
\* final state, leaves success and score as they are and appears in
\* differences.extra_resources only.
C24_ExtrasAreNotPenalized ==
    Evaluated =>
        /\ \A c \in {"a", "b", "x"} \ (DOMAIN goal_state.catalogs
                                       \cup DOMAIN final_state.catalogs) :
              LET r == evaluate_task(WithCatalog(c), goal_state)
              IN  /\ SameButExtras(r)
                  /\ c \in r.differences.extra_resources.catalogs
        /\ \A k \in {"a.s.t", "x.y.z"} \ (DOMAIN goal_state.tables
                                          \cup DOMAIN final_state.tables) :
              LET r == evaluate_task(WithTable(k), goal_state)
              IN  /\ SameButExtras(r)
                  /\ k \in r.differences.extra_resources.tables

\* The final state holds the goal's catalog a and a table and a catalog the
\* goal does not name; the evaluation succeeded and reports the extras.
C24_Witness ==
    /\ Evaluated
    /\ DOMAIN goal_state.catalogs = {"a"}
    /\ DOMAIN goal_state.tables = {}
    /\ result.success
    /\ result.differences.extra_resources =
          [catalogs |-> {"b"}, tables |-> {"a.s.t"}]

\* The resource kinds of a workspace.
ResourceKinds ==
    {"catalogs", "schemas", "tables", "notebooks", "clusters", "jobs"}

\* C25: for each resource kind (catalogs, schemas, tables, notebooks,
\* clusters, jobs) a goal key that the final state lacks is reported as
\* missing and makes success false.
C25_MissingKeysAreReported ==
    Evaluated =>
        \A kind \in ResourceKinds :
            \A k \in DOMAIN goal_state[kind] \ DOMAIN final_state[kind] :
                /\ ("missing_" \o kind) \in DOMAIN result.differences
                /\ k \in result.differences["missing_" \o kind]
                /\ ~result.success

\* incorrect_tables has a row-count entry for table k.
RowsEntry(k) ==
    \E e \in result.differences.incorrect_tables :
        e.table = k /\ e.issue = "Insufficient data rows"

\* C26: a goal table with at least one row, found in the final state, is
\* reported for insufficient data rows exactly when the final table has
\* fewer rows; what the rows hold is not compared, and a goal table without
\* rows asks nothing of the final table's rows.
C26_RowsAreCounted ==
    Evaluated =>
        \A k \in FoundTables :
            /\ Len(goal_state.tables[k].data) >= 1 =>
                  (RowsEntry(k) <=> Len(final_state.tables[k].data)
                                       < Len(goal_state.tables[k].data))
            /\ Len(goal_state.tables[k].data) = 0 => ~RowsEntry(k)
            /\ RowsEntry(k) => ~result.success

\* The final table holds one row that is not the goal's row, and the
\* evaluation reports nothing about the rows.
C26_Witness ==
    /\ Evaluated
    /\ "a.s.t" \in FoundTables
    /\ goal_state.tables["a.s.t"].data = <<<<<<"id", 1>>>>>>
    /\ final_state.tables["a.s.t"].data = <<<<<<"id", 2>>>>>>
    /\ ~RowsEntry("a.s.t")
    /\ result.success

-----------------------------------------------------------------------------
(* Properties of the tools and the registry schema                         *)

\* The parameters whose values are lists.
ListParameters == {"columns", "rows"}

\* Parameter k is missing from the args of the last call, or empty.
MissingOrEmpty(k) ==
    \/ k \notin DOMAIN args
    \/ IF k \in ListParameters THEN args[k] = <<>> ELSE Falsy(args[k])

AddsOne(before, after, id) ==
    /\ id \notin DOMAIN before
    /\ DOMAIN after = DOMAIN before \cup {id}
    /\ \A k \in DOMAIN before : after[k] = before[k]

\* C28: a successful create_cluster adds exactly one cluster, under an
\* identifier that was no key of clusters, in state RUNNING, and leaves the
\* other clusters as they were; a successful create_job does the same for
\* jobs; so two creations with one name give two entries; every cluster of
\* every reachable state is RUNNING.
C28_CreationsAddOneEntry ==
    /\ (tool = "create_cluster" /\ IsSuccess(response)) =>
          /\ AddsOne(prev.clusters, state.clusters, response.cluster_id)
          /\ state.clusters[response.cluster_id].cluster_id
                = response.cluster_id
          /\ state.clusters[response.cluster_id].name = args.name
          /\ state.clusters[response.cluster_id].state = "RUNNING"
    /\ (tool = "create_job" /\ IsSuccess(response)) =>
          /\ AddsOne(prev.jobs, state.jobs, response.job_id)
          /\ state.jobs[response.job_id].job_id = response.job_id
          /\ state.jobs[response.job_id].name = args.name
    /\ \A k \in DOMAIN state.clusters : state.clusters[k].state = "RUNNING"

\* A second cluster of the same name was created.
C28_Witness ==
    /\ tool = "create_cluster"
    /\ IsSuccess(response)
    /\ Cardinality(DOMAIN state.clusters) = 2
    /\ \A k \in DOMAIN state.clusters : state.clusters[k].name = "etl"

-----------------------------------------------------------------------------
(* Properties of the policy                                                *)

\* C29: create_cluster with a non-empty name (and a num_workers that is an
\* integer, if given) succeeds and adds a cluster in every state, also
\* where the cluster count is at or above MAX_CLUSTERS_PER_WORKSPACE and
\* validate_cluster_count reports invalid.
C29_CeilingIsNotEnforced ==
    (/\ tool = "create_cluster"
     /\ ~Falsy(Get(args, "name"))
     /\ Get(args, "num_workers") \in IntStrings \cup {None})
    => /\ IsSuccess(response)
       /\ Cardinality(DOMAIN state.clusters)
             = Cardinality(DOMAIN prev.clusters) + 1

\* A cluster was created in a workspace that validate_cluster_count reports
\* invalid, and the count is above the ceiling.
C29_Witness ==
    /\ tool = "create_cluster"
    /\ IsSuccess(response)
    /\ ~validate_cluster_count(prev)[1]
    /\ Cardinality(DOMAIN state.clusters) > MAX_CLUSTERS_PER_WORKSPACE

NameValidators ==
    {"validate_catalog_name", "validate_schema_name", "validate_table_name"}

\* C30: the three name validators report a name valid if and only if it is
\* non-empty, has at most 255 characters and consists of ASCII letters,
\* digits and underscores alone; an invalid verdict has a non-empty reason.
C30_NameIsValidIffWellFormed ==
    tool \in NameValidators =>
        /\ response[1] <=>
              /\ Len(args.name) >= 1
              /\ Len(args.name) <= 255
              /\ \A i \in 1..Len(args.name) : args.name[i] \in WordCharacters
        /\ ~response[1] => response[2] # ""

\* The name argument k of the action validated last; no name is the empty
\* name.
NameArgument(k) ==
    LET a == GetDefault(args, "args", <<>>)
    IN  IF k \in DOMAIN a THEN a[k] ELSE <<>>

\* C31: validate_action gives, for create_catalog, create_schema and
\* create_table, the verdict of the matching name check on the action's
\* name argument, for create_cluster the verdict of validate_cluster_count
\* on the state, and valid for every other or missing action type.
C31_ActionVerdictIsTheChecksVerdict ==
    tool = "validate_action" =>
        response =
            CASE Get(args, "type") = "create_catalog" ->
                    validate_catalog_name(NameArgument("catalog_name"))
              [] Get(args, "type") = "create_schema" ->
                    validate_schema_name(NameArgument("schema_name"))
              [] Get(args, "type") = "create_table" ->
                    validate_table_name(NameArgument("table_name"))
              [] Get(args, "type") = "create_cluster" ->
                    validate_cluster_count(state)
              [] OTHER -> <<TRUE, "">>

\* C32: every notebook's language is one of sql, python, scala and r, and a
\* create_notebook call without a language creates a python notebook.
C32_NotebookLanguages ==
    /\ \A path \in DOMAIN state.notebooks :
           state.notebooks[path].language \in {"sql", "python", "scala", "r"}
    /\ (tool = "create_notebook" /\ IsSuccess(response)
        /\ "language" \notin DOMAIN args)
           => state.notebooks[args.path].language = "python"

\* C33: the canonical key identifies a schema or table: create_schema or
\* create_table answers "already exists" only when a schema or table of
\* exactly the same name components was created before.
C33_KeyIdentifiesResource ==
    /\ (tool = "create_schema"
        /\ response = Error("Schema '" \o ArgSchemaKey \o "' already exists"))
           => \E k \in DOMAIN prev.schemas :
                  /\ prev.schemas[k].catalog_name = args.catalog_name
                  /\ prev.schemas[k].schema_name = args.schema_name
    /\ (tool = "create_table"
        /\ response = Error("Table '" \o ArgTableKey \o "' already exists"))
           => \E k \in DOMAIN prev.tables :
                  /\ prev.tables[k].catalog_name = args.catalog_name
                  /\ prev.tables[k].schema_name = args.schema_name
                  /\ prev.tables[k].table_name = args.table_name

\* Every entity of workspace s is stored under the key made of its own
\* fields.
KeysAgree(s) ==
    /\ \A k \in DOMAIN s.catalogs : k = s.catalogs[k].name
    /\ \A k \in DOMAIN s.schemas :
           k = s.schemas[k].catalog_name \o "." \o s.schemas[k].schema_name
    /\ \A k \in DOMAIN s.tables :
           k = s.tables[k].catalog_name \o "." \o s.tables[k].schema_name
                   \o "." \o s.tables[k].table_name
    /\ \A k \in DOMAIN s.notebooks : k = s.notebooks[k].path
    /\ \A k \in DOMAIN s.clusters : k = s.clusters[k].cluster_id
    /\ \A k \in DOMAIN s.jobs : k = s.jobs[k].job_id

\* C34: in every reachable state every entity is stored under the key made
\* of its own fields, so that the schema list_tables or create_table finds
\* by the key of its catalog_name and schema_name is the schema that has
\* these two fields.
C34_KeysAndEntitiesAgree ==
    /\ KeysAgree(state)
    /\ (tool \in {"list_tables", "create_table"}
        /\ {"catalog_name", "schema_name"} \subseteq DOMAIN args)
           => {k \in DOMAIN prev.schemas : k = ArgSchemaKey}
                = {k \in DOMAIN prev.schemas :
                       /\ prev.schemas[k].catalog_name = args.catalog_name
                       /\ prev.schemas[k].schema_name = args.schema_name}

\* The cell a successful run_notebook_cell or create_visualization call
\* adds.
AddedCell ==
    IF tool = "run_notebook_cell" THEN args.cell_content
    ELSE "VISUALIZATION: type="
             \o Str(GetDefault(args, "visualization_type", "bar"))
             \o ", x=" \o Str(Get(args, "x_column"))
             \o ", y=" \o Str(Get(args, "y_column"))
             \o ", group_by=" \o Str(Get(args, "group_by"))

\* C35: a successful run_notebook_cell or create_visualization call appends
\* exactly one string, the cell content or the VISUALIZATION description, to
\* the named notebook's cells, keeps the earlier cells in order, keeps the
\* notebook's language and attached cluster, and leaves every other notebook
\* as it was.
C35_CellAppended ==
    (tool \in {"run_notebook_cell", "create_visualization"}
     /\ IsSuccess(response))
        => LET p == args.notebook_path
               before == prev.notebooks[p]
               after == state.notebooks[p]
           IN  /\ after.cells = before.cells \o <<AddedCell>>
               /\ after.language = before.language
               /\ after.attached_cluster_id = before.attached_cluster_id
               /\ DOMAIN state.notebooks = DOMAIN prev.notebooks
               /\ \A q \in DOMAIN prev.notebooks \ {p} :
                      state.notebooks[q] = prev.notebooks[q]

\* A cell has been appended to a notebook that had a cell.
C35_Witness ==
    /\ tool \in {"run_notebook_cell", "create_visualization"}
    /\ IsSuccess(response)
    /\ prev.notebooks[args.notebook_path].cells # <<>>

-----------------------------------------------------------------------------
(* Properties of the state computer                                        *)

\* The values of run in increasing order of their index in values.
RunOf(values, run, key) ==
    LET index(m) == CHOOSE i \in run : Cardinality({j \in run : j <= i}) = m
    IN  [m \in 1..Cardinality(run) |-> values[index(m)][key]]

\* What the mappings of values, earliest first, say together: a key has the
\* value of the last mapping that mentions it, and when that value is a
\* mapping, what it says together with the mappings the key had right
\* before it.
RECURSIVE LatestWins(_)
LatestWins(values) ==
    [key \in UNION {DOMAIN values[i] : i \in 1..Len(values)} |->
        LET mentions == {i \in 1..Len(values) : key \in DOMAIN values[i]}
            last == CHOOSE i \in mentions : \A j \in mentions : j <= i
            run == {i \in mentions :
                       \A j \in mentions :
                           j >= i => "leaf" \notin DOMAIN values[j][key]}
        IN  IF "leaf" \in DOMAIN values[last][key]
            THEN values[last][key]
            ELSE LatestWins(RunOf(values, run, key))]

\* The expected_state_change of the steps of the workflow computed last
\* whose step_id is at most the step index, in step-list order.
AppliedChanges ==
    LET steps == args.workflow.steps
    IN  SelectSeq([n \in 1..Len(steps) |->
                      IF steps[n].step_id <= args.step_index
                      THEN steps[n].expected_state_change ELSE <<>>],
                  LAMBDA c : TRUE)

-----------------------------------------------------------------------------
(* Properties of the workspace the tools build                             *)

\* C37: in every reachable state every schema's catalog_name is a key of
\* catalogs, every table's catalog_name and schema_name make a key of
\* schemas, active_catalog is unset or a key of catalogs, and every
\* notebook's attached_cluster_id is unset or a key of clusters.
C37_ReferentialIntegrity ==
    /\ \A k \in DOMAIN state.schemas :
           state.schemas[k].catalog_name \in DOMAIN state.catalogs
    /\ \A k \in DOMAIN state.tables :
           state.tables[k].catalog_name \o "." \o state.tables[k].schema_name
               \in DOMAIN state.schemas
    /\ state.active_catalog = None
           \/ state.active_catalog \in DOMAIN state.catalogs
    /\ \A k \in DOMAIN state.notebooks :
           state.notebooks[k].attached_cluster_id = None
               \/ state.notebooks[k].attached_cluster_id
                      \in DOMAIN state.clusters

\* A workspace with a table, an active catalog and a second catalog.
C37_Witness ==
    /\ state.tables # <<>>
    /\ state.active_catalog # None
    /\ Cardinality(DOMAIN state.catalogs) = 2

\* The resources of the workspace that the response of the list tool called
\* last has to name, and the names it gives.
Listed ==
    CASE tool = "list_catalogs" ->
            <<DOMAIN state.catalogs, {r.name : r \in response.catalogs}>>
      [] tool = "list_schemas" ->
            <<{state.schemas[k].schema_name :
                 k \in {x \in DOMAIN state.schemas :
                          state.schemas[x].catalog_name = args.catalog_name}},
              {r.schema_name : r \in response.schemas}>>
      [] tool = "list_tables" ->
            <<{state.tables[k].table_name :
                 k \in {x \in DOMAIN state.tables :
                          /\ state.tables[x].catalog_name = args.catalog_name
                          /\ state.tables[x].schema_name = args.schema_name}},
              {r.table_name : r \in response.tables}>>
      [] tool = "list_notebooks" ->
            <<DOMAIN state.notebooks, {r.path : r \in response.notebooks}>>
      [] tool = "list_clusters" ->
            <<DOMAIN state.clusters, {r.cluster_id : r \in response.clusters}>>
      [] tool = "list_jobs" ->
            <<DOMAIN state.jobs, {r.job_id : r \in response.jobs}>>

\* C40: no tool call removes or replaces a created resource: the key sets
\* of catalogs, schemas, tables, notebooks, clusters and jobs only grow, the
\* owner and comment of an existing catalog or schema and the columns of an
\* existing table stay as they are, none but revoke_privilege makes the
\* permissions fewer, and a list tool names every resource of its kind that
\* the workspace has.
C40_ResourcesAreKept ==
    /\ \A kind \in ResourceKinds : DOMAIN prev[kind] \subseteq DOMAIN state[kind]
    /\ \A k \in DOMAIN prev.catalogs :
           /\ state.catalogs[k].owner = prev.catalogs[k].owner
           /\ state.catalogs[k].comment = prev.catalogs[k].comment
    /\ \A k \in DOMAIN prev.schemas :
           /\ state.schemas[k].owner = prev.schemas[k].owner
           /\ state.schemas[k].comment = prev.schemas[k].comment
    /\ \A k \in DOMAIN prev.tables :
           state.tables[k].columns = prev.tables[k].columns
    /\ tool # "revoke_privilege"
           => \A n \in 1..Len(prev.permissions) :
                  \E m \in 1..Len(state.permissions) :
                      state.permissions[m] = prev.permissions[n]
    /\ (tool \in {"list_catalogs", "list_schemas", "list_tables",
                  "list_notebooks", "list_clusters", "list_jobs"}
        /\ ~IsError(response))
           => Listed[1] \subseteq Listed[2]

\* revoke_privilege took a permission away from a workspace that has a
\* catalog, and the catalog is still there.
C40_Witness ==
    /\ tool = "revoke_privilege"
    /\ Len(state.permissions) < Len(prev.permissions)
    /\ prev.catalogs # <<>>
    /\ state.catalogs = prev.catalogs

====
